---- MODULE Spec2Model ----
(***************************************************************************)
(* A model of the HTML-to-document content extractor                       *)
(* (src/workers/content_extractor_worker.py, ContentExtractorWorker).      *)
(*                                                                         *)
(* Strings are sequences of one-character strings, so that prefix tests,   *)
(* stripping, splitting and replacing are computed character by character. *)
(* A parsed tree is a nested record; a node is addressed by its path, the  *)
(* sequence of child indices leading to it from the document root.         *)
(***************************************************************************)
EXTENDS Integers, Sequences, FiniteSets, TLC

(***************************************************************************)
(* Bounds of the model.                                                    *)
(***************************************************************************)
MaxRefLen == 4

(***************************************************************************)
(* Strings.                                                                *)
(***************************************************************************)
SeqsUpTo(S, n) == UNION {[1..k -> S] : k \in 0..n}


StartsWith(s, p) == Len(s) >= Len(p) /\ SubSeq(s, 1, Len(p)) = p

Drop(s, n) == SubSeq(s, n + 1, Len(s))

IsSpace(c) == c \in {" ", "\n", "\t"}

RECURSIVE LStrip(_)
LStrip(s) == IF s # <<>> /\ IsSpace(Head(s)) THEN LStrip(Tail(s)) ELSE s

RECURSIVE RStrip(_)
RStrip(s) ==
    IF s # <<>> /\ IsSpace(s[Len(s)]) THEN RStrip(SubSeq(s, 1, Len(s) - 1)) ELSE s

Strip(s) == RStrip(LStrip(s))

\* index of the first occurrence of character c in s, 0 when there is none
RECURSIVE IndexOf(_, _)
IndexOf(s, c) ==
    IF s = <<>> THEN 0
    ELSE IF Head(s) = c THEN 1
    ELSE LET r == IndexOf(Tail(s), c) IN IF r = 0 THEN 0 ELSE r + 1

\* str.split(c)
RECURSIVE Split(_, _)
Split(s, c) ==
    LET i == IndexOf(s, c)
    IN  IF i = 0 THEN <<s>>
        ELSE <<SubSeq(s, 1, i - 1)>> \o Split(Drop(s, i), c)

\* sep.join(parts)
RECURSIVE Join(_, _)
Join(parts, sep) ==
    IF parts = <<>> THEN <<>>
    ELSE IF Len(parts) = 1 THEN parts[1]
    ELSE parts[1] \o sep \o Join(Tail(parts), sep)

\* str.replace(old, new)
RECURSIVE Replace(_, _, _)
Replace(s, old, new) ==
    IF s = <<>> THEN <<>>
    ELSE IF StartsWith(s, old) THEN new \o Replace(Drop(s, Len(old)), old, new)
    ELSE <<Head(s)>> \o Replace(Tail(s), old, new)

LowerChars == <<"a", "b", "c", "d", "e", "f", "g", "h", "i", "j", "k", "l", "m",
                "n", "o", "p", "q", "r", "s", "t", "u", "v", "w", "x", "y", "z">>
UpperChars == <<"A", "B", "C", "D", "E", "F", "G", "H", "I", "J", "K", "L", "M",
                "N", "O", "P", "Q", "R", "S", "T", "U", "V", "W", "X", "Y", "Z">>

IsLower(c) == \E i \in 1..26 : LowerChars[i] = c
IsUpper(c) == \E i \in 1..26 : UpperChars[i] = c
IsLetter(c) == IsLower(c) \/ IsUpper(c)
ToUpper(c) == IF IsLower(c) THEN UpperChars[CHOOSE i \in 1..26 : LowerChars[i] = c] ELSE c
ToLower(c) == IF IsUpper(c) THEN LowerChars[CHOOSE i \in 1..26 : UpperChars[i] = c] ELSE c

\* str.title(): a letter that follows a non-letter is upper-cased, every
\* other letter is lower-cased
Title(s) ==
    [i \in 1..Len(s) |->
        IF i = 1 \/ ~IsLetter(s[i - 1]) THEN ToUpper(s[i]) ELSE ToLower(s[i])]

(***************************************************************************)
(* URL Resolver.                                                           *)
(***************************************************************************)
S_http == <<"h", "t", "t", "p">>
S_colon_slash_slash == <<":", "/", "/">>
S_slash == <<"/">>
S_dot == <<".">>
S_dotdot == <<".", ".">>

IsDigit(c) == c \in {"0", "1", "2", "3", "4", "5", "6", "7", "8", "9"}

\* urlparse(u).scheme: the text before the first ':' when it is a scheme
\* name (a letter, then letters, digits, '+', '-' or '.'), else ''
SchemeUpTo(u, i) ==
    IF /\ i > 1
       /\ IsLetter(u[1])
       /\ \A k \in 1..(i - 1) : IsLetter(u[k]) \/ IsDigit(u[k]) \/ u[k] \in {"+", "-", "."}
    THEN SubSeq(u, 1, i - 1) ELSE <<>>

UrlScheme(u) == SchemeUpTo(u, IndexOf(u, ":"))

\* what follows the scheme and its ':'
RestAfter(u, scheme) == IF scheme = <<>> THEN u ELSE Drop(u, Len(scheme) + 1)

UrlRest(u) == RestAfter(u, UrlScheme(u))

\* the text after '//' up to the next '/', and the rest from that '/' on
NetlocOf(a, i) == IF i = 0 THEN a ELSE SubSeq(a, 1, i - 1)
PathAfterNetloc(a, i) == IF i = 0 THEN <<>> ELSE Drop(a, i - 1)

NetlocOfRest(r) ==
    IF StartsWith(r, <<"/", "/">>) THEN NetlocOf(Drop(r, 2), IndexOf(Drop(r, 2), "/"))
    ELSE <<>>

PathOfRest(r) ==
    IF StartsWith(r, <<"/", "/">>)
    THEN PathAfterNetloc(Drop(r, 2), IndexOf(Drop(r, 2), "/"))
    ELSE r

\* urlparse(u).netloc: what follows '//' up to the next '/'
UrlNetloc(u) == NetlocOfRest(UrlRest(u))

\* urlparse(u).path
UrlPath(u) == PathOfRest(UrlRest(u))

\* base_url of __init__: scheme://netloc of the page URL
BaseUrl(u) == UrlScheme(u) \o S_colon_slash_slash \o UrlNetloc(u)

\* the dot-segment loop of urljoin
RECURSIVE ResolveSegments(_, _)
ResolveSegments(segs, acc) ==
    IF segs = <<>> THEN acc
    ELSE IF Head(segs) = S_dotdot
         THEN ResolveSegments(Tail(segs),
                  IF acc = <<>> THEN acc ELSE SubSeq(acc, 1, Len(acc) - 1))
    ELSE IF Head(segs) = S_dot THEN ResolveSegments(Tail(segs), acc)
    ELSE ResolveSegments(Tail(segs), Append(acc, Head(segs)))

\* filter(None, segments[1:-1]) applied to the middle of a relative path
DropEmptyMiddle(segs) ==
    IF Len(segs) <= 2 THEN segs
    ELSE <<segs[1]>>
         \o SelectSeq(SubSeq(segs, 2, Len(segs) - 1), LAMBDA x : x # <<>>)
         \o <<segs[Len(segs)]>>

\* the segments of the reference path, joined to the (empty) base path
PathSegments(path) ==
    IF Head(path) = "/" THEN Split(path, "/")
    ELSE DropEmptyMiddle(<<<<>>>> \o Split(path, "/"))

\* the resolved segments; a path ending in '.' or '..' ends in '/'
ResolvedPath(segments) ==
    IF segments[Len(segments)] \in {S_dot, S_dotdot}
    THEN Append(ResolveSegments(segments, <<>>), <<>>)
    ELSE ResolveSegments(segments, <<>>)

\* urlunsplit: an empty path is '/', a path that lacks a leading '/' gets one
UnsplitPath(joined) ==
    IF joined = <<>> THEN S_slash
    ELSE IF Head(joined) # "/" THEN S_slash \o joined
    ELSE joined

\* the join once scheme, netloc and path of the reference are known
JoinParts(base, bscheme, netloc, path) ==
    IF netloc # <<>> THEN bscheme \o S_colon_slash_slash \o netloc \o path
    ELSE IF path = <<>> THEN base
    ELSE base \o UnsplitPath(Join(ResolvedPath(PathSegments(path)), S_slash))

JoinSchemes(base, ref, bscheme, rscheme) ==
    IF rscheme # <<>> /\ rscheme # bscheme THEN ref
    ELSE JoinParts(base, bscheme, UrlNetloc(ref), UrlPath(ref))

\* urllib.parse.urljoin(base, ref) for a base of the form scheme://netloc
UrlJoin(base, ref) ==
    IF base = <<>> THEN ref
    ELSE IF ref = <<>> THEN base
    ELSE JoinSchemes(base, ref, UrlScheme(base), UrlScheme(ref))

\* mutant: the empty reference is not tested for
MakeAbsolute_NoEmptyTest(base_url, url) ==
    IF StartsWith(url, S_http) THEN url ELSE UrlJoin(base_url, url)

MakeAbsolute(base_url, url) ==
    IF url = <<>> THEN <<>>
    ELSE IF StartsWith(url, S_http) THEN url
    ELSE UrlJoin(base_url, url)

(***************************************************************************)
(* Parsed tree.  A node is an element (tag, attributes, children) or a     *)
(* text fragment (tag "#text").  Attribute values are strings; the class   *)
(* attribute is the list of its tokens.                                    *)
(***************************************************************************)
\* an absent attribute reads as the empty string, except content, which is
\* <<>> when absent and <<value>> when present
NoAttrs ==
    [id |-> <<>>, href |-> <<>>, src |-> <<>>, alt |-> <<>>, name |-> <<>>,
     property |-> <<>>, type |-> <<>>, content |-> <<>>, data_block_plugin_id |-> <<>>]

Elem(tag, class, kids) ==
    [tag |-> tag, class |-> class, attrs |-> NoAttrs, text |-> <<>>, kids |-> kids]

ElemA(tag, class, attrs, kids) ==
    [tag |-> tag, class |-> class, attrs |-> attrs, text |-> <<>>, kids |-> kids]

Text(s) ==
    [tag |-> "#text", class |-> <<>>, attrs |-> NoAttrs, text |-> s, kids |-> <<>>]

IsTag(n) == n.tag # "#text"

\* the node at a path below n
RECURSIVE NodeAt(_, _)
NodeAt(n, path) ==
    IF path = <<>> THEN n ELSE NodeAt(n.kids[Head(path)], Tail(path))


\* paths of all descendants of the node at path, in document order
RECURSIVE DescPaths(_, _)
RECURSIVE DescPathsFrom(_, _, _)
DescPaths(n, path) == DescPathsFrom(n, path, 1)
DescPathsFrom(n, path, i) ==
    IF i > Len(n.kids) THEN <<>>
    ELSE <<path \o <<i>>>> \o DescPaths(n.kids[i], path \o <<i>>)
         \o DescPathsFrom(n, path, i + 1)

InSeq(x, s) == \E i \in 1..Len(s) : s[i] = x

\* find_all(tags): element descendants whose tag is in the set, document order
FindAllTags(root, path, tags) ==
    SelectSeq(DescPaths(NodeAt(root, path), path),
              LAMBDA q : NodeAt(root, q).tag \in tags)

\* find_all(class_=token): element descendants carrying the class token
FindAllClass(root, path, token) ==
    SelectSeq(DescPaths(NodeAt(root, path), path),
              LAMBDA q : InSeq(token, NodeAt(root, q).class))

\* find(...): the first match, as a sequence of length 0 or 1
First(s) == IF s = <<>> THEN <<>> ELSE <<s[1]>>

\* find_parent(class_=token): is there a proper ancestor carrying the token
HasAncestorClass(root, path, token) ==
    \E k \in 0..(Len(path) - 1) : InSeq(token, NodeAt(root, SubSeq(path, 1, k)).class)

\* the text fragments below (and including) a node, in document order
RECURSIVE Strings(_)
RECURSIVE StringsFrom(_, _)
Strings(n) == IF n.tag = "#text" THEN <<n.text>> ELSE StringsFrom(n, 1)
StringsFrom(n, i) ==
    IF i > Len(n.kids) THEN <<>>
    ELSE Strings(n.kids[i]) \o StringsFrom(n, i + 1)

\* get_text()
GetText(n) == Join(Strings(n), <<>>)

\* the stripped, non-empty fragments: _all_strings(strip=True)
StripAll(strs) == [i \in 1..Len(strs) |-> Strip(strs[i])]

StrippedStrings(n) == SelectSeq(StripAll(Strings(n)), LAMBDA s : s # <<>>)

\* get_text(strip=True)
GetTextStrip(n) == Join(StrippedStrings(n), <<>>)

\* get_text(separator=sep, strip=True)
GetTextSepStrip(n, sep) == Join(StrippedStrings(n), sep)

(***************************************************************************)
(* String literals of the source.                                          *)
(***************************************************************************)
S_Source == <<"S", "o", "u", "r", "c", "e", ":", " ">>
S_ComponentOpen == <<"[", "C", "O", "M", "P", "O", "N", "E", "N", "T", ":", " ">>
S_TextBlockOpen == <<"[", "C", "O", "M", "P", "O", "N", "E", "N", "T", ":", " ", "T", "e", "x", "t", " ", "B", "l", "o", "c", "k", " ">>
S_Close == <<"]">>
S_Space == <<" ">>
S_ArticleCategory == <<"A", "r", "t", "i", "c", "l", "e", " ", "c", "a", "t", "e", "g", "o", "r", "y", ":", " ">>
S_Dash == <<" ", "-", " ">>
S_IMAGE == <<"I", "M", "A", "G", "E", ":", "\n">>
S_NoImageFound == <<"N", "o", " ", "i", "m", "a", "g", "e", " ", "f", "o", "u", "n", "d">>
S_AltText == <<"A", "l", "t", " ", "T", "e", "x", "t", ":", " ">>
S_NoAltText == <<"N", "o", " ", "A", "l", "t", " ", "T", "e", "x", "t">>
S_ArticlesList == <<"A", "r", "t", "i", "c", "l", "e", "s", " ", "L", "i", "s", "t">>
S_TitleHeader == <<"T", "i", "t", "l", "e">>
S_URLHeader == <<"U", "R", "L">>
S_ComponentColon == <<"C", "o", "m", "p", "o", "n", "e", "n", "t", ":", " ">>
S_TextImage == <<"T", "e", "x", "t", " ", "I", "m", "a", "g", "e">>
S_HeroArticle == <<"H", "e", "r", "o", " ", "A", "r", "t", "i", "c", "l", "e">>
S_HeroImage == <<"H", "e", "r", "o", " ", "I", "m", "a", "g", "e">>
S_ImagePositionLeft == <<"I", "m", "a", "g", "e", " ", "P", "o", "s", "i", "t", "i", "o", "n", ":", " ", "L", "e", "f", "t", "\n">>
S_NoImage == <<"N", "o", " ", "I", "m", "a", "g", "e">>
S_OpenParen == <<" ", "(">>
S_CloseParen == <<")">>
S_NoMainContent == <<"N", "o", " ", "m", "a", "i", "n", " ", "c", "o", "n", "t", "e", "n", "t", " ", "f", "o", "u", "n", "d", ".">>
S_BlankLine == <<"\n", "\n">>
S_SeoMetadata == <<"S", "E", "O", " ", "M", "E", "T", "A", "D", "A", "T", "A">>
S_InternalURL == <<"I", "n", "t", "e", "r", "n", "a", "l", " ", "U", "R", "L">>
S_MetaTitle == <<"M", "e", "t", "a", " ", "T", "i", "t", "l", "e">>
S_MetaDescription == <<"M", "e", "t", "a", " ", "D", "e", "s", "c", "r", "i", "p", "t", "i", "o", "n">>
S_OGTitle == <<"O", "G", " ", "T", "i", "t", "l", "e">>
S_OGDescription == <<"O", "G", " ", "D", "e", "s", "c", "r", "i", "p", "t", "i", "o", "n">>
S_Schema == <<"S", "c", "h", "e", "m", "a">>
S_NoMetaTitle == <<"N", "o", " ", "M", "e", "t", "a", " ", "T", "i", "t", "l", "e">>
S_NoMetaDescription == <<"N", "o", " ", "M", "e", "t", "a", " ", "D", "e", "s", "c", "r", "i", "p", "t", "i", "o", "n">>
S_NoOGTitle == <<"N", "o", " ", "O", "G", " ", "T", "i", "t", "l", "e">>
S_NoOGDescription == <<"N", "o", " ", "O", "G", " ", "D", "e", "s", "c", "r", "i", "p", "t", "i", "o", "n">>
S_NoSchema == <<"N", "o", " ", "S", "c", "h", "e", "m", "a">>

\* class tokens and ids the source tests for
C_component_prefix == <<"c", "o", "m", "p", "o", "n", "e", "n", "t", "-", "-">>
C_article_hero == <<"a", "r", "t", "i", "c", "l", "e", "-", "-", "h", "e", "r", "o">>
C_hero_image == <<"h", "e", "r", "o", "-", "-", "i", "m", "a", "g", "e">>
C_hero_article_category == <<"h", "e", "r", "o", "-", "-", "a", "r", "t", "i", "c", "l", "e", "-", "c", "a", "t", "e", "g", "o", "r", "y">>
C_field_article_category == <<"f", "i", "e", "l", "d", "-", "-", "n", "a", "m", "e", "-", "f", "i", "e", "l", "d", "-", "a", "r", "t", "i", "c", "l", "e", "-", "c", "a", "t", "e", "g", "o", "r", "y">>
C_field_name_title == <<"f", "i", "e", "l", "d", "-", "-", "n", "a", "m", "e", "-", "t", "i", "t", "l", "e">>
C_hero_wrapper_items == <<"h", "e", "r", "o", "-", "-", "a", "r", "t", "i", "c", "l", "e", "-", "w", "r", "a", "p", "p", "e", "r", "-", "-", "i", "t", "e", "m", "s">>
C_article_author_bottom == <<"a", "r", "t", "i", "c", "l", "e", "-", "a", "u", "t", "h", "o", "r", "-", "b", "o", "t", "t", "o", "m">>
C_nppe_feedback == <<"n", "p", "p", "e", "-", "f", "e", "e", "d", "b", "a", "c", "k", "-", "a", "r", "t", "i", "c", "l", "e", "-", "f", "o", "r", "m">>
C_related_topics_label == <<"r", "e", "l", "a", "t", "e", "d", "-", "t", "o", "p", "i", "c", "s", "-", "-", "l", "a", "b", "e", "l">>
C_related_topics_links == <<"r", "e", "l", "a", "t", "e", "d", "-", "t", "o", "p", "i", "c", "s", "-", "-", "l", "i", "n", "k", "s">>
C_article_progressbar == <<"a", "r", "t", "i", "c", "l", "e", "-", "-", "p", "r", "o", "g", "r", "e", "s", "s", "b", "a", "r">>
C_component_newsletter == <<"c", "o", "m", "p", "o", "n", "e", "n", "t", "-", "-", "n", "e", "w", "s", "l", "e", "t", "t", "e", "r">>
C_clearfix == <<"c", "l", "e", "a", "r", "f", "i", "x">>
C_text_formatted == <<"t", "e", "x", "t", "-", "f", "o", "r", "m", "a", "t", "t", "e", "d">>
C_field == <<"f", "i", "e", "l", "d">>
C_field_c_text == <<"f", "i", "e", "l", "d", "-", "-", "n", "a", "m", "e", "-", "f", "i", "e", "l", "d", "-", "c", "-", "t", "e", "x", "t">>
C_field_text_long == <<"f", "i", "e", "l", "d", "-", "-", "t", "y", "p", "e", "-", "t", "e", "x", "t", "-", "l", "o", "n", "g">>
C_field_label_hidden == <<"f", "i", "e", "l", "d", "-", "-", "l", "a", "b", "e", "l", "-", "h", "i", "d", "d", "e", "n">>
C_field_item == <<"f", "i", "e", "l", "d", "_", "_", "i", "t", "e", "m">>
P_summary == <<"s", "u", "m", "m", "a", "r", "y">>
P_text == <<"t", "e", "x", "t">>
P_desc == <<"d", "e", "s", "c">>
P_body == <<"b", "o", "d", "y">>
P_content == <<"c", "o", "n", "t", "e", "n", "t">>

exclusions ==
    {C_hero_wrapper_items, C_article_author_bottom, C_nppe_feedback,
     C_related_topics_label, C_related_topics_links, C_article_progressbar,
     C_component_newsletter}

target_classes ==
    {C_clearfix, C_text_formatted, C_field, C_field_c_text, C_field_text_long,
     C_field_label_hidden, C_field_item}

SkipTags == {"script", "style", "nav", "footer", "header", "noscript"}
ContainerTags == {"div", "section", "article"}
HeadingTags == {"h2", "h3", "h4", "h5", "h6"}

\* int(element.name[1]) for h2..h6
HeadingLevel(tag) ==
    CASE tag = "h2" -> 2 [] tag = "h3" -> 3 [] tag = "h4" -> 4
      [] tag = "h5" -> 5 [] tag = "h6" -> 6 [] OTHER -> 3

\* str(n) for a non-negative integer
RECURSIVE IntToStr(_)
IntToStr(n) ==
    LET d == <<"0", "1", "2", "3", "4", "5", "6", "7", "8", "9">>[(n % 10) + 1]
    IN  IF n < 10 THEN <<d>> ELSE IntToStr(n \div 10) \o <<d>>

\* does s contain sub
Contains(s, sub) ==
    \E i \in 0..(Len(s) - Len(sub)) : SubSeq(s, i + 1, i + Len(sub)) = sub

\* class_=re.compile(r'(summary|text|desc|body|content)')
MatchesTextPattern(class) ==
    \E i \in 1..Len(class) :
        \E p \in {P_summary, P_text, P_desc, P_body, P_content} : Contains(class[i], p)

(***************************************************************************)
(* Output Document: a sequence of blocks.  A block is a paragraph or a     *)
(* heading (runs) or a table (rows of cells, a cell being its runs).       *)
(* by names the statement of the source that appended the block and at the *)
(* path of the element it was appended for.                                *)
(***************************************************************************)
Run(text, fmt) == [text |-> text, fmt |-> fmt]
Plain(text) == Run(text, {})

Paragraph(style, runs, by, at) ==
    [kind |-> "Paragraph", level |-> 0, style |-> style, runs |-> runs,
     rows |-> <<>>, by |-> by, at |-> at]

Heading(level, runs, by, at) ==
    [kind |-> "Heading", level |-> level, style |-> "Heading", runs |-> runs,
     rows |-> <<>>, by |-> by, at |-> at]

Table(style, rows, by, at) ==
    [kind |-> "Table", level |-> 0, style |-> style, runs |-> <<>>,
     rows |-> rows, by |-> by, at |-> at]

\* doc.add_paragraph(text): a run is added only for a non-empty text
TextRuns(text) == IF text = <<>> THEN <<>> ELSE <<Plain(text)>>

\* doc.add_paragraph()
Spacer(by, at) == Paragraph("Normal", <<>>, by, at)

(***************************************************************************)
(* Component Classifier: the loop over the class tokens of _process_element*)
(***************************************************************************)
Humanize(cls) == Title(Replace(Replace(cls, C_component_prefix, <<>>), <<"-">>, <<" ">>))

\* the value of component_name after the loop: <<>> for None, else <<name>>
RECURSIVE ClassifyFrom(_, _)
ClassifyFrom(classes, i) ==
    IF i > Len(classes) THEN <<>>
    ELSE IF StartsWith(classes[i], C_component_prefix) THEN <<Humanize(classes[i])>>
    ELSE IF classes[i] = C_article_hero THEN <<S_HeroArticle>>
    ELSE IF classes[i] = C_hero_image THEN <<S_HeroImage>>
    ELSE ClassifyFrom(classes, i + 1)

Classify(classes) == ClassifyFrom(classes, 1)

\* "if component_name:" - neither None nor the empty string
IsComponentName(c) == c # <<>> /\ c[1] # <<>>

(***************************************************************************)
(* Inline-run processor: _process_children_with_links                      *)
(***************************************************************************)
LinkFmt == {"blue", "underline"}

\* mutant: a link gives its text and never its URL
LinkRuns_Silent(link_text, link_url) == <<Run(link_text, LinkFmt)>>

\* the link text run, and the URL run when link_url is not empty
LinkRuns(link_text, link_url) ==
    <<Run(link_text, LinkFmt)>>
    \o (IF link_url # <<>>
        THEN <<Run(S_OpenParen \o link_url \o S_CloseParen, LinkFmt)>>
        ELSE <<>>)

ChildRuns(base_url, child) ==
    IF child.tag = "#text"
    THEN IF child.text # <<>> THEN <<Plain(child.text)>> ELSE <<>>
    ELSE IF child.tag = "a"
    THEN LinkRuns(GetText(child), MakeAbsolute(base_url, child.attrs.href))
    ELSE IF child.tag \in {"strong", "b"} THEN <<Run(GetText(child), {"bold"})>>
    ELSE IF child.tag \in {"em", "i"} THEN <<Run(GetText(child), {"italic"})>>
    ELSE <<Plain(GetText(child))>>

RECURSIVE ChildrenRunsFrom(_, _, _)
ChildrenRunsFrom(base_url, element, i) ==
    IF i > Len(element.kids) THEN <<>>
    ELSE ChildRuns(base_url, element.kids[i]) \o ChildrenRunsFrom(base_url, element, i + 1)

ProcessChildrenWithLinks(base_url, element) == ChildrenRunsFrom(base_url, element, 1)

(***************************************************************************)
(* Table rule: _process_table                                              *)
(***************************************************************************)
CellTags == {"td", "th"}

RECURSIVE MaxOf(_)
MaxOf(s) ==
    IF Len(s) = 1 THEN s[1]
    ELSE IF s[1] >= MaxOf(Tail(s)) THEN s[1] ELSE MaxOf(Tail(s))

\* mutant: the column count is taken from the first row
ColCount_FirstRow(root, rows) == Len(FindAllTags(root, rows[1], CellTags))

\* col_count = max(len(row.find_all(['td', 'th'])) for row in rows)
ColCount(root, rows) ==
    MaxOf([i \in 1..Len(rows) |-> Len(FindAllTags(root, rows[i], CellTags))])

\* the cells of one row of the Word table: the text of the j-th cell, an
\* untouched cell stays empty
RowCells(root, cells, col_count) ==
    [j \in 1..col_count |->
        IF j <= Len(cells) THEN <<Plain(GetTextStrip(NodeAt(root, cells[j])))>>
        ELSE <<>>]

TableCells(root, rows, col_count) ==
    [i \in 1..Len(rows) |-> RowCells(root, FindAllTags(root, rows[i], CellTags), col_count)]

\* the table appended for the rows found
TableOf(root, path, rows) ==
    IF rows = <<>> THEN <<>>
    ELSE <<Table("Light Grid Accent 1", TableCells(root, rows, ColCount(root, rows)),
                 "_process_table", path)>>

\* the blocks _process_table appends for the table element at path
ProcessTable(root, path) == TableOf(root, path, FindAllTags(root, path, {"tr"}))

(***************************************************************************)
(* Component Renderer: _process_special_component.  Each renderer gives    *)
(* the blocks it appends, in order, for the element at path.               *)
(***************************************************************************)
MarkerFmt == {"size9", "grey", "italic"}
TextBlockMarkerFmt == {"size9", "green", "bold"}

\* alt_text if alt_text else "No Alt Text"
AltOrDefault(alt_text) == IF alt_text # <<>> THEN alt_text ELSE S_NoAltText

\* img_tag.get('alt', '').strip(), '' without an img
AltOf(root, img_tag) ==
    IF img_tag = <<>> THEN <<>> ELSE Strip(NodeAt(root, img_tag[1]).attrs.alt)

\* _make_absolute(img_tag.get('src', ''))
SrcOf(root, base_url, img_tag) ==
    MakeAbsolute(base_url, NodeAt(root, img_tag[1]).attrs.src)

\* --- 1. Hero Article ---
HeroCategoryUrl(root, base_url, cat_link) ==
    IF cat_link = <<>> THEN <<>>
    ELSE MakeAbsolute(base_url, NodeAt(root, cat_link[1]).attrs.href)

HeroCategoryRuns(cat_text, cat_url) ==
    <<Run(S_ArticleCategory \o cat_text, {"bold"})>>
    \o (IF cat_url # <<>> THEN <<Run(S_Dash \o cat_url, {"italic"})>> ELSE <<>>)

HeroCategoryBlocks(root, base_url, path, cat_elem) ==
    IF cat_elem = <<>> THEN <<>>
    ELSE <<Paragraph("Normal",
               HeroCategoryRuns(GetTextStrip(NodeAt(root, cat_elem[1])),
                                HeroCategoryUrl(root, base_url,
                                    First(FindAllTags(root, cat_elem[1], {"a"})))),
               "hero_category", path)>>

HeroImageTag(root, hero_image_container) ==
    IF hero_image_container = <<>> THEN <<>>
    ELSE First(FindAllTags(root, hero_image_container[1], {"img"}))

HeroTable(root, base_url, path, img_tag) ==
    Table("Table Grid",
          << << <<Run(S_IMAGE, {"bold"}),
                  Plain(IF img_tag = <<>> THEN S_NoImageFound
                        ELSE SrcOf(root, base_url, img_tag))>>,
                <<Run(S_AltText, {"bold"}), Plain(AltOrDefault(AltOf(root, img_tag)))>> >> >>,
          "hero_table", path)

\* mutant: without an image the table is left out
RenderHeroArticle_NeedsImage(root, base_url, path) ==
    HeroCategoryBlocks(root, base_url, path,
                       First(FindAllClass(root, path, C_hero_article_category)))
    \o (IF HeroImageTag(root, First(FindAllClass(root, path, C_hero_image))) = <<>>
        THEN <<>>
        ELSE <<HeroTable(root, base_url, path,
                         HeroImageTag(root, First(FindAllClass(root, path, C_hero_image))))>>)
    \o <<Spacer("hero_spacer", path)>>

RenderHeroArticle(root, base_url, path) ==
    HeroCategoryBlocks(root, base_url, path,
                       First(FindAllClass(root, path, C_hero_article_category)))
    \o <<HeroTable(root, base_url, path,
                   HeroImageTag(root, First(FindAllClass(root, path, C_hero_image)))),
         Spacer("hero_spacer", path)>>

\* --- 2. Articles List ---
ParentPath(path) == SubSeq(path, 1, Len(path) - 1)

HrefOf(root, link) == NodeAt(root, link).attrs.href

\* a link is kept unless its parent is the category field, its href is empty
\* or its href was seen before
IsArticleLink(root, link, seen_urls) ==
    /\ ~InSeq(C_field_article_category, NodeAt(root, ParentPath(link)).class)
    /\ HrefOf(root, link) # <<>>
    /\ HrefOf(root, link) \notin seen_urls

\* the loop that keeps the first link of every href, skipping category links
RECURSIVE ArticleLinksFrom(_, _, _, _)
ArticleLinksFrom(root, all_links, i, seen_urls) ==
    IF i > Len(all_links) THEN <<>>
    ELSE IF IsArticleLink(root, all_links[i], seen_urls)
    THEN <<all_links[i]>>
         \o ArticleLinksFrom(root, all_links, i + 1,
                             seen_urls \cup {HrefOf(root, all_links[i])})
    ELSE ArticleLinksFrom(root, all_links, i + 1, seen_urls)

ArticleLinks(root, path) ==
    ArticleLinksFrom(root, FindAllTags(root, path, {"a"}), 1, {})

\* the walk up the parents of a link, strictly below the component element
RECURSIVE TitleFromParents(_, _, _, _)
TitleFromParents(root, element, parent, default) ==
    IF Len(parent) <= Len(element) THEN default
    ELSE IF FindAllClass(root, parent, C_field_name_title) # <<>>
    THEN GetTextStrip(NodeAt(root, FindAllClass(root, parent, C_field_name_title)[1]))
    ELSE TitleFromParents(root, element, ParentPath(parent), default)

ArticleTitle(root, element, link) ==
    TitleFromParents(root, element, ParentPath(link), GetTextStrip(NodeAt(root, link)))

ComponentTitleText(root, component_title) ==
    IF component_title = <<>> THEN S_ArticlesList
    ELSE GetTextStrip(NodeAt(root, component_title[1]))

ArticlesTable(root, base_url, path, article_links, component_title_text) ==
    Table("Light Grid Accent 1",
          << << <<Run(S_TitleHeader, {"bold"})>>, <<Run(S_URLHeader, {"bold"})>> >>,
             << <<Run(S_ComponentColon \o component_title_text, {"bold"})>>,
                <<Plain(<<>>)>> >> >>
          \o [i \in 1..Len(article_links) |->
                << <<Plain(ArticleTitle(root, path, article_links[i]))>>,
                   <<Plain(MakeAbsolute(base_url, HrefOf(root, article_links[i])))>> >>],
          "articles_table", path)

\* mutant: the table is added for an empty list of links as well
ArticlesBlocks_AlwaysTable(root, base_url, path, article_links) ==
    <<ArticlesTable(root, base_url, path, article_links,
          ComponentTitleText(root, First(FindAllTags(root, path, {"h2", "h3", "h4"})))),
      Spacer("articles_spacer", path)>>

ArticlesBlocks(root, base_url, path, article_links) ==
    (IF article_links # <<>>
     THEN <<ArticlesTable(root, base_url, path, article_links,
                ComponentTitleText(root, First(FindAllTags(root, path, {"h2", "h3", "h4"}))))>>
     ELSE <<>>)
    \o <<Spacer("articles_spacer", path)>>

RenderArticlesList(root, base_url, path) ==
    ArticlesBlocks(root, base_url, path, ArticleLinks(root, path))

\* --- 3. Text Image ---
BodyBlock(tag_name, text_content, path) ==
    IF tag_name \in HeadingTags
    THEN Heading(HeadingLevel(tag_name), TextRuns(text_content), "text_image_body", path)
    ELSE Paragraph("Normal", TextRuns(text_content), "text_image_body", path)

\* mutant: a text seen before is kept again
IsNewContent_Repeated(root, tag, text_content, seen_texts) ==
    /\ ~HasAncestorClass(root, tag, C_hero_article_category)
    /\ text_content # <<>>
    /\ Len(text_content) > 2

\* a content tag is kept when it is outside the category, longer than 2
\* characters and not seen before
IsNewContent(root, tag, text_content, seen_texts) ==
    /\ ~HasAncestorClass(root, tag, C_hero_article_category)
    /\ text_content # <<>>
    /\ Len(text_content) > 2
    /\ text_content \notin seen_texts

\* tier 1: the loop over p/h2-h6/li descendants
RECURSIVE ContentTagBlocks(_, _, _, _, _)
ContentTagBlocks(root, path, content_tags, i, seen_texts) ==
    IF i > Len(content_tags) THEN <<>>
    ELSE IF IsNewContent(root, content_tags[i],
                         GetTextStrip(NodeAt(root, content_tags[i])), seen_texts)
    THEN <<BodyBlock(NodeAt(root, content_tags[i]).tag,
                     GetTextStrip(NodeAt(root, content_tags[i])), path)>>
         \o ContentTagBlocks(root, path, content_tags, i + 1,
                seen_texts \cup {GetTextStrip(NodeAt(root, content_tags[i]))})
    ELSE ContentTagBlocks(root, path, content_tags, i + 1, seen_texts)

\* find_all(class_=re.compile(...)): element descendants with a matching class
FindAllTextContainers(root, path) ==
    SelectSeq(DescPaths(NodeAt(root, path), path),
              LAMBDA q : MatchesTextPattern(NodeAt(root, q).class))

IsNewContainerText(t, seen_texts) == t # <<>> /\ Len(t) > 10 /\ t \notin seen_texts

\* tier 2: the loop over the class-matched containers
RECURSIVE ContainerBlocks(_, _, _, _, _)
ContainerBlocks(root, path, text_containers, i, seen_texts) ==
    IF i > Len(text_containers) THEN <<>>
    ELSE IF IsNewContainerText(GetTextStrip(NodeAt(root, text_containers[i])), seen_texts)
    THEN <<Paragraph("Normal", TextRuns(GetTextStrip(NodeAt(root, text_containers[i]))),
                     "text_image_body", path)>>
         \o ContainerBlocks(root, path, text_containers, i + 1,
                seen_texts \cup {GetTextStrip(NodeAt(root, text_containers[i]))})
    ELSE ContainerBlocks(root, path, text_containers, i + 1, seen_texts)

TextImageInfo(root, base_url, img_tag) ==
    <<Run(S_ImagePositionLeft, {"bold"})>>
    \o (IF img_tag # <<>>
        THEN <<Run(S_IMAGE, {"bold"}), Plain(SrcOf(root, base_url, img_tag))>>
        ELSE <<Run(S_NoImage, {"italic"})>>)

TextImageTable(root, base_url, path, img_tag) ==
    Table("Table Grid",
          << <<TextImageInfo(root, base_url, img_tag),
               <<Run(S_AltText, {"bold"}), Plain(AltOrDefault(AltOf(root, img_tag)))>> >> >>,
          "text_image_table", path)

TextImageBody(root, path, content_tags) ==
    IF content_tags # <<>>
    THEN ContentTagBlocks(root, path, content_tags, 1, {})
    ELSE ContainerBlocks(root, path, FindAllTextContainers(root, path), 1, {})

TextImageMarker(path, text_image_count) ==
    Paragraph("Normal",
              <<Run(S_ComponentOpen \o S_TextImage \o S_Space \o IntToStr(text_image_count)
                    \o S_Close, MarkerFmt)>>,
              "text_image_marker", path)

\* mutant: the table is appended before the marker
RenderTextImage_TableFirst(root, base_url, path, text_image_count) ==
    <<TextImageTable(root, base_url, path, First(FindAllTags(root, path, {"img"}))),
      TextImageMarker(path, text_image_count),
      Spacer("text_image_spacer", path)>>
    \o TextImageBody(root, path, FindAllTags(root, path, {"p", "li"} \cup HeadingTags))
    \o <<Spacer("text_image_spacer", path)>>

RenderTextImage(root, base_url, path, text_image_count) ==
    <<TextImageMarker(path, text_image_count),
      TextImageTable(root, base_url, path, First(FindAllTags(root, path, {"img"}))),
      Spacer("text_image_spacer", path)>>
    \o TextImageBody(root, path, FindAllTags(root, path, {"p", "li"} \cup HeadingTags))
    \o <<Spacer("text_image_spacer", path)>>

\* --- 4. Other Components (Default) ---
SummaryLimit == 500

\* list(dict.fromkeys(parts)): the first occurrence of every text, in order
RECURSIVE DedupFrom(_, _, _)
DedupFrom(parts, i, seen) ==
    IF i > Len(parts) THEN <<>>
    ELSE IF parts[i] \in seen THEN DedupFrom(parts, i + 1, seen)
    ELSE <<parts[i]>> \o DedupFrom(parts, i + 1, seen \cup {parts[i]})

TextsOf(root, paths) == [i \in 1..Len(paths) |-> GetTextStrip(NodeAt(root, paths[i]))]

\* step (i): the class-matched containers, category excluded, longer than 10
ClassTextParts(root, path) ==
    TextsOf(root,
        SelectSeq(FindAllTextContainers(root, path),
            LAMBDA q : /\ ~InSeq(C_hero_article_category, NodeAt(root, q).class)
                       /\ Len(GetTextStrip(NodeAt(root, q))) > 10))

\* step (ii): the non-empty texts of the p/h1-h6 descendants
TagTextParts(root, path) ==
    TextsOf(root,
        SelectSeq(FindAllTags(root, path, {"p", "h1"} \cup HeadingTags),
            LAMBDA q : GetTextStrip(NodeAt(root, q)) # <<>>))

OrElse(first, second) == IF first # <<>> THEN first ELSE second

\* mutant: step (ii) is taken only when no class-matched container exists
GenericTextParts_ByExistence(root, path) ==
    IF FindAllTextContainers(root, path) # <<>> THEN ClassTextParts(root, path)
    ELSE TagTextParts(root, path)

GenericTextParts(root, path) == OrElse(ClassTextParts(root, path), TagTextParts(root, path))

Truncate(s, n) == SubSeq(s, 1, IF Len(s) < n THEN Len(s) ELSE n)

GenericSummary(root, path) ==
    OrElse(Join(DedupFrom(GenericTextParts(root, path), 1, {}), S_BlankLine),
           Truncate(GetTextSepStrip(NodeAt(root, path), S_Space), SummaryLimit))

GenericImageCell(root, base_url, img_tag) ==
    IF img_tag # <<>>
    THEN <<Run(S_IMAGE, {"bold"}), Plain(SrcOf(root, base_url, img_tag))>>
    ELSE <<Run(S_NoImage, {"italic"})>>

RenderGeneric(root, base_url, path, component_name) ==
    <<Paragraph("Normal", <<Run(S_ComponentOpen \o component_name \o S_Close, MarkerFmt)>>,
                "component_marker", path),
      Table("Table Grid",
            << <<GenericImageCell(root, base_url, First(FindAllTags(root, path, {"img"}))),
                 <<Plain(GenericSummary(root, path))>> >> >>,
            "component_table", path),
      Spacer("component_spacer", path)>>

\* the dispatch on component_name; text_image_count is the counter after
\* the increment of the Text Image branch
ProcessSpecialComponent(root, base_url, path, component_name, text_image_count) ==
    IF component_name = S_HeroArticle THEN RenderHeroArticle(root, base_url, path)
    ELSE IF component_name = S_ArticlesList THEN RenderArticlesList(root, base_url, path)
    ELSE IF component_name = S_TextImage
         THEN RenderTextImage(root, base_url, path, text_image_count)
    ELSE RenderGeneric(root, base_url, path, component_name)

A_description == <<"d", "e", "s", "c", "r", "i", "p", "t", "i", "o", "n">>
A_og_title == <<"o", "g", ":", "t", "i", "t", "l", "e">>
A_og_description == <<"o", "g", ":", "d", "e", "s", "c", "r", "i", "p", "t", "i", "o", "n">>
A_ld_json == <<"a", "p", "p", "l", "i", "c", "a", "t", "i", "o", "n", "/", "l", "d", "+", "j", "s", "o", "n">>
S_SchemaSep == <<"\n", "-", "-", "-", "\n">>
S_Truncated == <<".", ".", ".", "[", "t", "r", "u", "n", "c", "a", "t", "e", "d", "]">>

(***************************************************************************)
(* Metadata table: _add_seo_metadata_table                                 *)
(***************************************************************************)
SchemaLimit == 2000

\* Tag.string: the text of a tag whose only child is a text fragment (or a
\* tag that has one); <<>> for None, else <<text>>
RECURSIVE TagString(_)
TagString(n) ==
    IF n.tag = "#text" THEN <<n.text>>
    ELSE IF Len(n.kids) = 1 THEN TagString(n.kids[1])
    ELSE <<>>

\* "if s.string": neither None nor the empty string
HasString(n) == TagString(n) # <<>> /\ TagString(n)[1] # <<>>

\* soup.find_all('meta', name=value) or soup.find_all('meta', property=value)
MetaFound(root, attr, value) ==
    SelectSeq(FindAllTags(root, <<>>, {"meta"}),
        LAMBDA q : IF attr = "name" THEN NodeAt(root, q).attrs.name = value
                   ELSE NodeAt(root, q).attrs.property = value)

\* found.get('content', default) if found else default
ContentOr(root, found, default) ==
    IF found = <<>> THEN default
    ELSE IF NodeAt(root, found[1]).attrs.content = <<>> THEN default
    ELSE NodeAt(root, found[1]).attrs.content[1]

MetaContent(root, attr, value, default) ==
    ContentOr(root, MetaFound(root, attr, value), default)

\* soup.find_all('script', type='application/ld+json')
LdJsonScripts(root) ==
    SelectSeq(FindAllTags(root, <<>>, {"script"}),
        LAMBDA q : NodeAt(root, q).attrs.type = A_ld_json)

SchemaStrings(root, with_string) ==
    [i \in 1..Len(with_string) |-> Strip(TagString(NodeAt(root, with_string[i]))[1])]

TruncateSchema(schema_text) ==
    IF Len(schema_text) > SchemaLimit
    THEN SubSeq(schema_text, 1, SchemaLimit) \o S_Truncated
    ELSE schema_text

SchemaOf(root, schemas) ==
    IF schemas = <<>> THEN S_NoSchema
    ELSE TruncateSchema(
             Join(SchemaStrings(root,
                      SelectSeq(schemas, LAMBDA q : HasString(NodeAt(root, q)))),
                  S_SchemaSep))

SchemaText(root) == SchemaOf(root, LdJsonScripts(root))

\* meta_title.string.strip() if meta_title and meta_title.string
MetaTitleOf(root, meta_title) ==
    IF meta_title # <<>> /\ HasString(NodeAt(root, meta_title[1]))
    THEN Strip(TagString(NodeAt(root, meta_title[1]))[1])
    ELSE S_NoMetaTitle

MetaTitleText(root) == MetaTitleOf(root, First(FindAllTags(root, <<>>, {"title"})))

SeoRow(label, value) == << <<Run(label, {"bold"})>>, <<Plain(value)>> >>

\* mutant: the table has no rows for the Open Graph fields
SeoMetadataBlocks_NoOg(root, url) ==
    <<Paragraph("Normal", <<Run(S_SeoMetadata, {"bold", "size12", "blue112"})>>,
                "seo_header", <<>>),
      Table("Light Grid Accent 1",
            <<SeoRow(S_InternalURL, UrlPath(url)),
              SeoRow(S_MetaTitle, MetaTitleText(root)),
              SeoRow(S_MetaDescription,
                     MetaContent(root, "name", A_description, S_NoMetaDescription)),
              SeoRow(S_Schema, SchemaText(root))>>,
            "seo_table", <<>>)>>

SeoMetadataBlocks(root, url) ==
    <<Paragraph("Normal", <<Run(S_SeoMetadata, {"bold", "size12", "blue112"})>>,
                "seo_header", <<>>),
      Table("Light Grid Accent 1",
            <<SeoRow(S_InternalURL, UrlPath(url)),
              SeoRow(S_MetaTitle, MetaTitleText(root)),
              SeoRow(S_MetaDescription,
                     MetaContent(root, "name", A_description, S_NoMetaDescription)),
              SeoRow(S_OGTitle, MetaContent(root, "property", A_og_title, S_NoOGTitle)),
              SeoRow(S_OGDescription,
                     MetaContent(root, "property", A_og_description, S_NoOGDescription)),
              SeoRow(S_Schema, SchemaText(root))>>,
            "seo_table", <<>>)>>

(***************************************************************************)
(* Tree Walker: one call of _process_element, without its recursive calls. *)
(* The result names the blocks appended, the counters afterwards, whether  *)
(* the Component Renderer was invoked, and the children the loop at the    *)
(* end of the function goes on to process.                                 *)
(***************************************************************************)
ClassSet(n) == {n.class[i] : i \in 1..Len(n.class)}

IsExcluded(n) ==
    \/ n.tag \in SkipTags
    \/ ClassSet(n) \cap exclusions # {}
    \/ n.attrs.id = C_nppe_feedback

IsTextBlock(n) == target_classes \subseteq ClassSet(n)

ChildPaths(n, path) == [i \in 1..Len(n.kids) |-> path \o <<i>>]

Outcome(blocks, tbc, tic, rendered, children) ==
    [blocks |-> blocks, tbc |-> tbc, tic |-> tic, rendered |-> rendered,
     children |-> children]

\* element.find_all('li', recursive=False)
DirectItems(root, element, path) ==
    SelectSeq(ChildPaths(element, path), LAMBDA q : NodeAt(root, q).tag = "li")

\* the direct li children of a list, each as one list paragraph
ListParagraphs(root, base_url, path, style, lis) ==
    [i \in 1..Len(lis) |->
        Paragraph(style, ProcessChildrenWithLinks(base_url, NodeAt(root, lis[i])),
                  "walk_list", path)]

ListItems(root, base_url, path, element) ==
    ListParagraphs(root, base_url, path,
                   IF element.tag = "ul" THEN "List Bullet" ELSE "List Number",
                   DirectItems(root, element, path))

\* mutant: the counter is incremented for every element
TextBlockCountAfter_Always(element, tbc) == tbc + 1

\* text_block_count after the Text Block tagging of an element
TextBlockCountAfter(element, tbc) == IF IsTextBlock(element) THEN tbc + 1 ELSE tbc

\* the marker paragraph of the Text Block tagging
TextBlockMarker(element, path, tbc1) ==
    IF IsTextBlock(element)
    THEN <<Paragraph("Normal",
              <<Run(S_TextBlockOpen \o IntToStr(tbc1) \o S_Close, TextBlockMarkerFmt)>>,
              "text_block_marker", path)>>
    ELSE <<>>

\* text_image_count after the dispatch on component_name
TextImageCountAfter(component_name, tic) ==
    IF component_name = S_TextImage THEN tic + 1 ELSE tic

\* mutant: the loop over the classes runs for every tag
ComponentName_AnyTag(element) == Classify(element.class)

\* component_name after the "Special Components" loop
ComponentName(element) ==
    IF element.tag \in ContainerTags THEN Classify(element.class) ELSE <<>>

\* mutant: an h1 met by the walk is rendered like the other headings
ProcessH1_AsHeading(base_url, path, element, marker, tbc1, tic) ==
    Outcome(marker \o <<Heading(1, ProcessChildrenWithLinks(base_url, element),
                                "walk_heading", path)>>,
            tbc1, tic, FALSE, <<>>)

\* "Skip H1 (already extracted at top)"
ProcessH1(base_url, path, element, marker, tbc1, tic) ==
    Outcome(marker, tbc1, tic, FALSE, <<>>)

\* "Processing Tags": the element is not rendered as a component
ProcessTag(root, base_url, path, element, marker, tbc1, tic) ==
    IF element.tag = "h1" THEN ProcessH1(base_url, path, element, marker, tbc1, tic)
    ELSE IF element.tag \in HeadingTags
    THEN Outcome(marker \o <<Heading(HeadingLevel(element.tag),
                                ProcessChildrenWithLinks(base_url, element),
                                "walk_heading", path)>>,
                 tbc1, tic, FALSE, <<>>)
    ELSE IF element.tag = "p"
    THEN Outcome(marker \o <<Paragraph("Normal",
                                ProcessChildrenWithLinks(base_url, element),
                                "walk_paragraph", path)>>,
                 tbc1, tic, FALSE, <<>>)
    ELSE IF element.tag \in {"ul", "ol"}
    THEN Outcome(marker \o ListItems(root, base_url, path, element),
                 tbc1, tic, FALSE, <<>>)
    ELSE IF element.tag = "table"
    THEN Outcome(marker \o ProcessTable(root, path), tbc1, tic, FALSE, <<>>)
    ELSE Outcome(marker, tbc1, tic, FALSE, ChildPaths(element, path))

\* the call of _process_special_component and the return after it
ProcessComponent(root, base_url, path, marker, tbc1, tic1, component_name) ==
    Outcome(marker \o ProcessSpecialComponent(root, base_url, path, component_name, tic1),
            tbc1, tic1, TRUE, <<>>)

\* "if component_name:" and what follows it
ProcessNamed(root, base_url, path, element, marker, tbc1, tic, component_name) ==
    IF IsComponentName(component_name)
    THEN ProcessComponent(root, base_url, path, marker, tbc1,
                          TextImageCountAfter(component_name[1], tic), component_name[1])
    ELSE ProcessTag(root, base_url, path, element, marker, tbc1, tic)

\* mutant: a Text Block is a stopping point, the walk ends at its marker
ProcessTagged_StopAtTextBlock(root, base_url, path, element, tbc1, tic) ==
    IF IsTextBlock(element)
    THEN Outcome(TextBlockMarker(element, path, tbc1), tbc1, tic, FALSE, <<>>)
    ELSE ProcessNamed(root, base_url, path, element, <<>>, tbc1, tic,
                      ComponentName(element))

\* the function after the Text Block tagging
ProcessTagged(root, base_url, path, element, tbc1, tic) ==
    ProcessNamed(root, base_url, path, element, TextBlockMarker(element, path, tbc1),
                 tbc1, tic, ComponentName(element))

\* mutant: the Text Block tagging comes before the exclusion test
ProcessNode_TaggedFirst(root, base_url, path, element, tbc, tic) ==
    IF IsExcluded(element)
    THEN Outcome(TextBlockMarker(element, path, TextBlockCountAfter(element, tbc)),
                 TextBlockCountAfter(element, tbc), tic, FALSE, <<>>)
    ELSE ProcessTagged(root, base_url, path, element,
                       TextBlockCountAfter(element, tbc), tic)

\* the function from its first line
ProcessNode(root, base_url, path, element, tbc, tic) ==
    IF IsExcluded(element) THEN Outcome(<<>>, tbc, tic, FALSE, <<>>)
    ELSE ProcessTagged(root, base_url, path, element,
                       TextBlockCountAfter(element, tbc), tic)

ProcessElement(root, base_url, path, tbc, tic) ==
    ProcessNode(root, base_url, path, NodeAt(root, path), tbc, tic)

\* a text fragment met by the loop over the children of a container
MinStrayText == 20

StrayText(text, path) ==
    IF Len(text) > MinStrayText
    THEN <<Paragraph("Normal", TextRuns(text), "walk_text", path)>>
    ELSE <<>>

ProcessString(root, path) == StrayText(Strip(NodeAt(root, path).text), path)

(***************************************************************************)
(* The worker.                                                             *)
(*   url, base_url, text_block_count, text_image_count: fields of the      *)
(*     worker; soup: the parsed page handed to _save_to_docx;              *)
(*   doc: the Output Document of the call in progress;                     *)
(*   stack: the elements and text fragments the walk has still to process, *)
(*     the next one first (the pending iterations of the recursion);       *)
(*   pc: position of the worker; calls: calls of _save_to_docx started;    *)
(*   saved: the documents written by doc.save, oldest first;               *)
(*   visited, rendered: the elements _process_element and                  *)
(*     _process_special_component were called with during this call;       *)
(*   arg, ret: argument and result of a function applied on its own;       *)
(*   signals: the Qt signals emitted so far, oldest first.                 *)
(***************************************************************************)
VARIABLES url, base_url, text_block_count, text_image_count, soup, doc, stack,
          pc, calls, saved, visited, rendered, arg, ret, signals,
          start_button, stop_button, thread, stopped, urls, all_urls_to_check,
          processed, queued, started

\* the crawler window and its CrawlerThread: the two buttons (enabled or
\* not), the position of the thread in run and main ("none": no thread was
\* created), its stopped flag, the urls it was given and has not looked at
\* yet, the urls it has collected, the number of tasks of the completion
\* loop it has awaited, the finished signals emitted by the thread and not
\* yet delivered to the window, and the number of threads created so far
lifecycle == <<start_button, stop_button, thread, stopped, urls, all_urls_to_check,
               processed, queued, started>>

vars == <<url, base_url, text_block_count, text_image_count, soup, doc, stack,
          pc, calls, saved, visited, rendered, arg, ret, signals, lifecycle>>

\* the window after __init__: Start enabled, Stop disabled, no thread
WindowInit ==
    /\ start_button = TRUE
    /\ stop_button = FALSE
    /\ thread = "none"
    /\ stopped = FALSE
    /\ urls = <<>>
    /\ all_urls_to_check = <<>>
    /\ processed = 0
    /\ queued = 0
    /\ started = 0

MaxCalls == 2

\* __init__
Construct(u) ==
    /\ url' = u
    /\ base_url' = BaseUrl(u)
    /\ text_block_count' = 0
    /\ text_image_count' = 0

\* mutant: the counters are not reset
CounterReset_Keep(count) == count

\* "Reset counters": the value a counter is given at the start of a call
CounterReset(count) == 0

\* the header paragraph and the spacer after it
HeaderBlocks(u) ==
    <<Paragraph("Centered", <<Run(S_Source \o u, {"bold", "size14", "blue112"})>>,
                "header", <<>>),
      Spacer("header", <<>>)>>

\* "H1 Extraction (Top)": h1 is soup.find('h1')
TitleBlocks(root, h1) ==
    IF h1 = <<>> THEN <<>>
    ELSE <<Heading(1, TextRuns(GetTextStrip(NodeAt(root, h1[1]))), "h1", h1[1]),
           Spacer("h1", h1[1])>>

\* soup.find('main') or soup.find('body')
MainContent(root) ==
    OrElse(First(FindAllTags(root, <<>>, {"main"})),
           First(FindAllTags(root, <<>>, {"body"})))

\* mutant: nothing is appended in place of the walk
NoMainBlocks_Silent(main_content) == <<>>

\* "else: doc.add_paragraph("No main content found.")"
NoMainBlocks(main_content) ==
    IF main_content = <<>>
    THEN <<Paragraph("Normal", TextRuns(S_NoMainContent), "no_main", <<>>)>>
    ELSE <<>>

\* _save_to_docx up to the call of _process_element on the main content
SaveToDocxBegin ==
    /\ pc \in {"ready", "saved"}
    /\ calls < MaxCalls
    /\ doc' = HeaderBlocks(url)
              \o TitleBlocks(soup, First(FindAllTags(soup, <<>>, {"h1"})))
              \o NoMainBlocks(MainContent(soup))
    /\ stack' = MainContent(soup)
    /\ text_block_count' = CounterReset(text_block_count)
    /\ text_image_count' = CounterReset(text_image_count)
    /\ visited' = <<>>
    /\ rendered' = <<>>
    /\ calls' = calls + 1
    /\ pc' = "walk"
    /\ UNCHANGED <<lifecycle, url, base_url, soup, saved, arg, ret, signals>>

\* mutant: the blocks of a call are put in front of the document
ApplyOutcome_InFront(r) ==
    /\ doc' = r.blocks \o doc
    /\ text_block_count' = r.tbc
    /\ text_image_count' = r.tic
    /\ stack' = r.children \o Tail(stack)
    /\ rendered' = IF r.rendered THEN Append(rendered, Head(stack)) ELSE rendered

\* the effect of one call of _process_element with outcome r
ApplyOutcome(r) ==
    /\ doc' = doc \o r.blocks
    /\ text_block_count' = r.tbc
    /\ text_image_count' = r.tic
    /\ stack' = r.children \o Tail(stack)
    /\ rendered' = IF r.rendered THEN Append(rendered, Head(stack)) ELSE rendered

\* one call of _process_element: the element on top of the stack
WalkElement ==
    /\ pc = "walk"
    /\ stack # <<>>
    /\ IsTag(NodeAt(soup, Head(stack)))
    /\ ApplyOutcome(ProcessElement(soup, base_url, Head(stack),
                                   text_block_count, text_image_count))
    /\ visited' = Append(visited, Head(stack))
    /\ UNCHANGED <<lifecycle, url, base_url, soup, pc, calls, saved, arg, ret, signals>>

\* one iteration of the loop over children that meets a text fragment
WalkString ==
    /\ pc = "walk"
    /\ stack # <<>>
    /\ ~IsTag(NodeAt(soup, Head(stack)))
    /\ doc' = doc \o ProcessString(soup, Head(stack))
    /\ stack' = Tail(stack)
    /\ UNCHANGED <<lifecycle, url, base_url, text_block_count, text_image_count, soup, pc,
                   calls, saved, visited, rendered, arg, ret, signals>>

\* the rest of _save_to_docx: spacer, metadata table, doc.save
SaveToDocxEnd ==
    /\ pc = "walk"
    /\ stack = <<>>
    /\ doc' = doc \o <<Spacer("seo_spacer", <<>>)>> \o SeoMetadataBlocks(soup, url)
    /\ saved' = Append(saved, doc')
    /\ pc' = "saved"
    /\ UNCHANGED <<lifecycle, url, base_url, text_block_count, text_image_count, soup, stack,
                   calls, visited, rendered, arg, ret, signals>>

\* a new worker is constructed for the same page
NewWorker ==
    /\ pc = "saved"
    /\ calls < MaxCalls
    /\ Construct(url)
    /\ pc' = "ready"
    /\ UNCHANGED <<lifecycle, soup, doc, stack, calls, saved, visited, rendered, arg, ret, signals>>

Next == SaveToDocxBegin \/ WalkElement \/ WalkString \/ SaveToDocxEnd \/ NewWorker

\* the reference handed to _make_absolute: arg is <<>> for a missing one
\* (None) and <<r>> for the string r; None and '' are both falsy
ArgString(a) == IF a = <<>> THEN <<>> ELSE a[1]

\* one call of _make_absolute on its own
CallMakeAbsolute ==
    /\ pc = "resolve"
    /\ ret' = <<MakeAbsolute(base_url, ArgString(arg))>>
    /\ pc' = "resolved"
    /\ UNCHANGED <<lifecycle, url, base_url, text_block_count, text_image_count, soup, doc, stack,
                   calls, saved, visited, rendered, arg, signals>>

NextUrl == CallMakeAbsolute

\* the "Special Components" loop run on its own over the class tokens in arg
CallClassify ==
    /\ pc = "classify"
    /\ ret' = <<Classify(ArgString(arg))>>
    /\ pc' = "classified"
    /\ UNCHANGED <<lifecycle, url, base_url, text_block_count, text_image_count, soup, doc, stack,
                   calls, saved, visited, rendered, arg, signals>>

NextClassify == CallClassify

(***************************************************************************)
(* Input pages.  A forest is built from leaves (fixed fragments) and       *)
(* containers (elements whose children are again a forest); its size is    *)
(* the number of leaves and containers in it.                              *)
(***************************************************************************)
MaxNodes == 3

U_page1 == <<"h", "t", "t", "p", "s", ":", "/", "/", "h", ".", "i", "o", "/", "p", "/", "q">>
U_page2 == <<"h", "t", "t", "p", ":", "/", "/", "w", ".", "o", "r", "g", "/">>
T_Body == <<"B", "o", "d", "y">>
T_Title == <<"T", "i", "t", "l", "e">>
T_Hi == <<"H", "i">>
T_x == <<"x">>
T_Stray == <<"L", "o", "o", "s", "e", " ", "t", "e", "x", "t", " ", "o", "f", " ", "a", " ", "p", "a", "g", "e", ",", " ", "l", "o", "n", "g", ".">>
T_Secret == <<"S", "e", "c", "r", "e", "t">>
T_One == <<"O", "n", "e">>
T_Two == <<"T", "w", "o">>
R_a_jpg == <<"/", "a", ".", "j", "p", "g">>
R_article_1 == <<"/", "a", "r", "t", "i", "c", "l", "e", "-", "1">>
R_article_1_abs == <<"h", "t", "t", "p", "s", ":", "/", "/", "h", ".", "i", "o", "/", "a", "r", "t", "i", "c", "l", "e", "-", "1">>
C_component == <<"c", "o", "m", "p", "o", "n", "e", "n", "t">>
C_component_text_image == <<"c", "o", "m", "p", "o", "n", "e", "n", "t", "-", "-", "t", "e", "x", "t", "-", "i", "m", "a", "g", "e">>
C_component_articles_list == <<"c", "o", "m", "p", "o", "n", "e", "n", "t", "-", "-", "a", "r", "t", "i", "c", "l", "e", "s", "-", "l", "i", "s", "t">>
C_component_card == <<"c", "o", "m", "p", "o", "n", "e", "n", "t", "-", "-", "c", "a", "r", "d">>
C_component_nested == <<"c", "o", "m", "p", "o", "n", "e", "n", "t", "-", "-", "a", "-", "c", "o", "m", "p", "o", "n", "e", "n", "t", "-", "-", "b">>
C_layout == <<"l", "a", "y", "o", "u", "t">>

RECURSIVE TreesOfSize(_, _, _)
RECURSIVE ForestsOfSize(_, _, _)
TreesOfSize(k, leaves, containers) ==
    IF k = 1 THEN leaves \cup containers
    ELSE {[c EXCEPT !.kids = f] :
             c \in containers, f \in ForestsOfSize(k - 1, leaves, containers)}
ForestsOfSize(k, leaves, containers) ==
    IF k = 0 THEN {<<>>}
    ELSE UNION {{<<t>> \o f : t \in TreesOfSize(j, leaves, containers),
                              f \in ForestsOfSize(k - j, leaves, containers)} :
                j \in 1..k}

Forests(n, leaves, containers) ==
    UNION {ForestsOfSize(k, leaves, containers) : k \in 0..n}

\* the parsed page: the document, its body, the forest in it
Page(forest) == Elem("[document]", <<>>, <<Elem("body", <<>>, forest)>>)

TextBlockClasses ==
    <<C_clearfix, C_text_formatted, C_field, C_field_c_text, C_field_text_long,
      C_field_label_hidden, C_field_item>>

P_Body == Elem("p", <<>>, <<Text(T_Body)>>)
Img_a == ElemA("img", <<>>, [NoAttrs EXCEPT !.src = R_a_jpg, !.alt = T_x], <<>>)
Stray == Text(T_Stray)
Div == Elem("div", <<>>, <<>>)
TextImageDiv == Elem("div", <<C_component, C_component_text_image>>, <<>>)
TextBlockDiv == Elem("div", TextBlockClasses, <<>>)
TextBlockImageDiv == Elem("section", TextBlockClasses \o <<C_component_text_image>>, <<>>)
ExcludedDiv == Elem("div", <<C_article_author_bottom>>, <<>>)

\* pages of numbered components: Text Image and Text Block elements, nested
\* and in sequence, with body text and images
WalkLeaves == {P_Body, Img_a}
WalkContainers == {TextImageDiv, TextBlockDiv, TextBlockImageDiv}
WalkPages == {Page(f) : f \in Forests(MaxNodes, WalkLeaves, WalkContainers)}

\* pages with one Articles List component: anchors with a relative and an
\* absolute spelling of the same URL, in sequence and nested
Link(href, text) == ElemA("a", <<>>, [NoAttrs EXCEPT !.href = href], <<Text(text)>>)
ArticlesListDiv == Elem("div", <<C_component, C_component_articles_list>>, <<>>)
ArticleLeaves ==
    {Link(R_article_1, T_One), Link(R_article_1, T_Two), Link(R_article_1_abs, T_Two)}
ArticlePages ==
    {Page(<<[ArticlesListDiv EXCEPT !.kids = f]>>) :
        f \in Forests(MaxNodes, ArticleLeaves, {Div})}

\* pages with one excluded element, directly under the body or inside a
\* container or a component; everything below it reads "Secret"
P_Secret == Elem("p", <<>>, <<Text(T_Secret)>>)
H1_Secret == Elem("h1", <<>>, <<Text(T_Secret)>>)
CardDiv == Elem("div", <<C_component_card>>, <<>>)
Inside(wrapper, e) == IF wrapper = <<>> THEN e ELSE [wrapper[1] EXCEPT !.kids = <<e>>]
ExcludedWrappers == {<<>>, <<Div>>, <<TextImageDiv>>, <<CardDiv>>}
ExcludedPages ==
    {Page(<<P_Body, Inside(w, [ExcludedDiv EXCEPT !.kids = f])>>) :
        w \in ExcludedWrappers,
        f \in Forests(MaxNodes - 1, {P_Secret, H1_Secret}, {TextImageDiv})}

\* pages with h1 elements, plain and with the Text Block classes, at the top
\* of the page, in containers and in components
H1_Title == Elem("h1", <<>>, <<Text(T_Title)>>)
H1_Hi == Elem("h1", TextBlockClasses, <<Text(<<" ">> \o T_Hi), Elem("em", <<>>, <<Text(T_x)>>)>>)
HeadingPages ==
    {Page(f) : f \in Forests(MaxNodes, {H1_Title, H1_Hi, Stray}, {Div, CardDiv})}

\* pages with Text Image components over an image with a blank alt, a
\* paragraph holding an image with neither src nor alt, and a heading
Img_blank == ElemA("img", <<>>, [NoAttrs EXCEPT !.src = R_article_1_abs, !.alt = <<" ", " ">>], <<>>)
Img_bare == ElemA("img", <<>>, NoAttrs, <<>>)
P_Figure == Elem("p", <<>>, <<Text(T_Title), Img_bare>>)
H2_Title == Elem("h2", <<>>, <<Text(T_Title)>>)
TextImagePages ==
    {Page(f) : f \in Forests(MaxNodes, {Img_blank, P_Figure, H2_Title}, {TextImageDiv})}

\* pages with one table, given by the number of cells of each of its rows:
\* the rows directly in the table, in a tbody, or in a table nested in the
\* one cell of an outer table; cell j of row i reads " i" and, in a b
\* element, "j "; td and th alternate
MaxRows == 2
MaxCells == 3
Cell(i, j) ==
    Elem(IF (i + j) % 2 = 0 THEN "td" ELSE "th", <<>>,
         <<Text(<<" ">> \o IntToStr(i)), Elem("b", <<>>, <<Text(IntToStr(j) \o <<" ">>)>>)>>)
Row(i, n) == Elem("tr", <<>>, [j \in 1..n |-> Cell(i, j)])
Rows(shape) == [i \in 1..Len(shape) |-> Row(i, shape[i])]
SourceTable(shape, wrap) ==
    IF wrap = "rows" THEN Elem("table", <<>>, Rows(shape))
    ELSE IF wrap = "tbody" THEN Elem("table", <<>>, <<Elem("tbody", <<>>, Rows(shape))>>)
    ELSE Elem("table", <<>>,
              <<Elem("tr", <<>>,
                     <<Elem("td", <<>>, <<Text(T_x), Elem("table", <<>>, Rows(shape))>>)>>)>>)
TablePages ==
    {Page(<<P_Body, SourceTable(shape, wrap)>>) :
        shape \in SeqsUpTo(0..MaxCells, MaxRows), wrap \in {"rows", "tbody", "nested"}}

\* pages with components in components, one kind carrying the bare prefix
\* as its class token
BareDiv == Elem("div", <<C_layout, C_component_prefix>>, <<>>)
NestedPages == {Page(f) : f \in Forests(MaxNodes, {P_Body}, {BareDiv, CardDiv})}

WorkerInit(pages) ==
    /\ url = U_page1
    /\ base_url = BaseUrl(U_page1)
    /\ text_block_count = 0
    /\ text_image_count = 0
    /\ soup \in pages
    /\ doc = <<>>
    /\ stack = <<>>
    /\ pc = "ready"
    /\ calls = 0
    /\ saved = <<>>
    /\ visited = <<>>
    /\ rendered = <<>>
    /\ arg = <<>>
    /\ ret = <<>>
    /\ signals = <<>>
    /\ WindowInit

\* pages of elements that an exclusion rule matches and that carry the Text
\* Block classes and a component or hero class as well: by tag, by class and
\* by id, next to and around a Text Block and text fragments
NavHero == Elem("nav", TextBlockClasses \o <<C_hero_image>>, <<>>)
NewsletterDiv == Elem("div", TextBlockClasses \o <<C_component_newsletter>>, <<>>)
FeedbackSection ==
    ElemA("section", TextBlockClasses \o <<C_component_text_image>>,
          [NoAttrs EXCEPT !.id = C_nppe_feedback], <<>>)
PrunedPages ==
    {Page(f) : f \in Forests(MaxNodes, {Stray},
                             {NavHero, NewsletterDiv, FeedbackSection, TextBlockDiv})}

InitPruned == WorkerInit(PrunedPages)

SpecPruned == InitPruned /\ [][Next]_vars

\* pages of divs that hold the prompt of the feedback widget as a text
\* fragment, alone, next to body text and next to a text long enough to
\* reach the cutoff
S_FeedbackPrompt == <<"A", "i", "d", "e", "z", "-", "n", "o", "u", "s", " ", "à", " ", "n", "o", "u", "s", " ", "a", "m", "é", "l", "i", "o", "r", "e", "r">>
FeedbackCutoff == 300
Prompt == Text(S_FeedbackPrompt)
LongText == Text([i \in 1..FeedbackCutoff |-> "a"])
FeedbackPages == {Page(f) : f \in Forests(MaxNodes, {Prompt, P_Body, LongText}, {Div})}

InitFeedback == WorkerInit(FeedbackPages)

SpecFeedback == InitFeedback /\ [][Next]_vars

\* pages of elements that are no containers and carry a component or hero
\* class: a paragraph, a heading, a list, a table and a span around others
P_TextImage == Elem("p", <<C_component, C_component_text_image>>, <<Text(T_Body)>>)
H2_Hero == Elem("h2", <<C_article_hero>>, <<Text(T_Title)>>)
Ul_Card == Elem("ul", <<C_component_card>>, <<Elem("li", <<C_hero_image>>, <<Text(T_One)>>)>>)
Table_Card ==
    Elem("table", <<C_component_card>>, <<Elem("tr", <<>>, <<Elem("td", <<>>, <<Text(T_x)>>)>>)>>)
SpanTextImage == Elem("span", <<C_component_text_image>>, <<>>)
TaggedPages ==
    {Page(f) : f \in Forests(MaxNodes, {P_TextImage, H2_Hero, Ul_Card, Table_Card, Stray},
                             {SpanTextImage, TextImageDiv})}

InitTagged == WorkerInit(TaggedPages)

SpecTagged == InitTagged /\ [][Next]_vars

\* pages of Text Blocks: a plain div, a paragraph, a Text Image section, and
\* a div with the bare component prefix, nested and in sequence
P_TextBlock == Elem("p", TextBlockClasses, <<Text(T_Title)>>)
TextBlockBareDiv == Elem("div", TextBlockClasses \o <<C_component_prefix>>, <<>>)
TextBlockPages ==
    {Page(f) : f \in Forests(MaxNodes, {P_Body, P_TextBlock, Stray},
                             {TextBlockDiv, TextBlockImageDiv, TextBlockBareDiv})}

InitTextBlock == WorkerInit(TextBlockPages)

SpecTextBlock == InitTextBlock /\ [][Next]_vars

\* pages with one Hero Article: with and without a category element, a link
\* in it with and without href, an image container with and without an image
HeroArticleDiv == Elem("article", <<C_article_hero>>, <<>>)
HeroCategoryDiv == Elem("div", <<C_hero_article_category>>, <<>>)
HeroImageDiv == Elem("div", <<C_hero_image>>, <<>>)
HeroPages ==
    {Page(<<Stray, [HeroArticleDiv EXCEPT !.kids = f]>>) :
        f \in Forests(MaxNodes,
                      {Img_a, Text(T_Body), Link(R_article_1, T_One), Link(<<>>, T_Two)},
                      {HeroCategoryDiv, HeroImageDiv})}

InitHero == WorkerInit(HeroPages)

SpecHero == InitHero /\ [][Next]_vars

\* pages with one Articles List: links with the same and with different
\* hrefs and without href, a heading, title fields with a text of their own
\* and around links, category fields and plain wrappers
LinkNoHref == Link(<<>>, T_x)
TitleField == Elem("div", <<C_field_name_title>>, <<>>)
TitleFieldText == Elem("span", <<C_field_name_title>>, <<Text(T_Title)>>)
CategoryField == Elem("div", <<C_field_article_category>>, <<>>)
ListedPages ==
    {Page(<<Stray, [ArticlesListDiv EXCEPT !.kids = f]>>) :
        f \in Forests(MaxNodes,
                      {Link(R_article_1, T_One), Link(R_article_1_abs, T_Two), LinkNoHref,
                       H2_Title, TitleFieldText},
                      {TitleField, CategoryField, Div})}

InitListed == WorkerInit(ListedPages)

SpecListed == InitListed /\ [][Next]_vars

\* pages with one Text Image: paragraphs and a list item with the same text, a
\* paragraph of one character, a heading, a text fragment, inside and outside
\* a category element and a text field
P_Short == Elem("p", <<>>, <<Text(T_x)>>)
Li_Body == Elem("li", <<>>, <<Text(<<" ">> \o T_Body)>>)
TextFieldDiv == Elem("div", <<C_field_c_text>>, <<>>)
BodyPages ==
    {Page(<<Stray, [TextImageDiv EXCEPT !.kids = f]>>) :
        f \in Forests(MaxNodes, {P_Body, P_Short, Li_Body, H2_Title, Stray},
                      {HeroCategoryDiv, TextFieldDiv})}

InitBody == WorkerInit(BodyPages)

SpecBody == InitBody /\ [][Next]_vars

\* pages with one Card component: paragraphs with and without text, a text
\* fragment, a fragment longer than the summary limit, inside and outside a
\* text field and a text field that is a category element
P_Empty == Elem("p", <<>>, <<>>)
LongFragment == Text([i \in 1..(SummaryLimit + 1) |-> "b"])
CategoryTextDiv == Elem("div", <<C_hero_article_category, C_field_c_text>>, <<>>)
CardPages ==
    {Page(<<Stray, [CardDiv EXCEPT !.kids = f]>>) :
        f \in Forests(MaxNodes, {P_Body, P_Empty, Stray, LongFragment},
                      {TextFieldDiv, CategoryTextDiv})}

InitCard == WorkerInit(CardPages)

SpecCard == InitCard /\ [][Next]_vars

\* pages of paragraphs, headings and lists with inline content: text, a link
\* with an href and a link without
InlinePages ==
    {Page(f) : f \in Forests(MaxNodes,
                             {Text(T_Body), Link(R_article_1, T_One), LinkNoHref},
                             {Elem("p", <<>>, <<>>), Elem("h3", <<>>, <<>>),
                              Elem("ul", <<>>, <<>>), Elem("li", <<>>, <<>>)})}

InitInline == WorkerInit(InlinePages)

SpecInline == InitInline /\ [][Next]_vars

Init == WorkerInit(WalkPages \cup ArticlePages \cup ExcludedPages \cup HeadingPages
                   \cup TextImagePages \cup TablePages
                   \cup NestedPages)

Spec == Init /\ [][Next]_vars

\* references: every string over '/', '.', 'a' up to MaxRefLen, a missing
\* one, and some of the shapes pages carry
R_cdn == <<"/", "/", "c", "d", "n", ".", "i", "o", "/", "a", ".", "j", "p", "g">>
R_dots == <<"/", "a", "/", ".", ".", "/", "b">>
R_httpx == <<"h", "t", "t", "p", "x">>
Refs ==
    SeqsUpTo({"/", ".", "a"}, MaxRefLen)
    \cup {R_a_jpg, R_article_1, R_article_1_abs, R_cdn, R_dots, R_httpx, S_http}

InitUrl ==
    /\ url \in {U_page1, U_page2}
    /\ base_url = BaseUrl(url)
    /\ text_block_count = 0
    /\ text_image_count = 0
    /\ soup = Page(<<>>)
    /\ doc = <<>>
    /\ stack = <<>>
    /\ pc = "resolve"
    /\ calls = 0
    /\ saved = <<>>
    /\ visited = <<>>
    /\ rendered = <<>>
    /\ arg \in {<<>>} \cup {<<r>> : r \in Refs}
    /\ ret = <<>>
    /\ signals = <<>>
    /\ WindowInit

SpecUrl == InitUrl /\ [][NextUrl]_vars

\* class token lists for the classifier on its own
MaxTokens == 3
Tokens ==
    {C_component, C_layout, C_component_prefix, C_component_text_image, C_component_card,
     C_component_nested, C_article_hero, C_hero_image}
InitClassify ==
    /\ url \in {U_page1}
    /\ base_url = BaseUrl(url)
    /\ text_block_count = 0
    /\ text_image_count = 0
    /\ soup = Page(<<>>)
    /\ doc = <<>>
    /\ stack = <<>>
    /\ pc = "classify"
    /\ calls = 0
    /\ saved = <<>>
    /\ visited = <<>>
    /\ rendered = <<>>
    /\ arg \in {<<classes>> : classes \in SeqsUpTo(Tokens, MaxTokens)}
    /\ ret = <<>>
    /\ signals = <<>>
    /\ WindowInit

SpecClassify == InitClassify /\ [][NextClassify]_vars

(***************************************************************************)
(* The thread: run and extract.  A signal is recorded with its name and a  *)
(* tag for the statement that emits it.                                    *)
(***************************************************************************)
MaxRuns == 2

Emit(name, by) == [name |-> name, by |-> by]

\* the runs started so far: one "Fetching ..." log each
RunsStarted == Len(SelectSeq(signals, LAMBDA e : e.by = "fetching"))

\* the pages a server answers with: an empty document, a page with a main
\* element, a page with a Text Block heading and loose text, a page with a
\* component
EmptyPage == Elem("[document]", <<>>, <<>>)
MainPage ==
    Elem("[document]", <<>>,
         <<Elem("html", <<>>,
                <<Elem("body", <<>>,
                       <<H1_Title,
                         Elem("main", <<>>, <<[TextBlockDiv EXCEPT !.kids = <<P_Body>>]>>),
                         P_Secret>>)>>)>>)
RunPages ==
    {EmptyPage, MainPage, Page(<<H1_Hi, Stray>>), Page(<<[CardDiv EXCEPT !.kids = <<P_Body>>]>>)}

\* run calls extract, which logs "Fetching ..." and sends the request
RunStart ==
    /\ pc \in {"start", "done"}
    /\ RunsStarted < MaxRuns
    /\ signals' = Append(signals, Emit("log_update", "fetching"))
    /\ pc' = "fetching"
    /\ UNCHANGED <<lifecycle, url, base_url, text_block_count, text_image_count, soup, doc, stack,
                   calls, saved, visited, rendered, arg, ret>>

\* mutant: no return after the error of a status other than 200
FetchStatus_NoReturn ==
    /\ pc = "fetching"
    /\ signals' = signals \o <<Emit("error", "http_status"),
                               Emit("log_update", "failed_to_fetch")>>
    /\ pc' = "ready"
    /\ UNCHANGED <<lifecycle, url, base_url, text_block_count, text_image_count, soup, doc, stack,
                   calls, saved, visited, rendered, arg, ret>>

\* "if response.status != 200": error, log, return
FetchStatus ==
    /\ pc = "fetching"
    /\ signals' = signals \o <<Emit("error", "http_status"),
                               Emit("log_update", "failed_to_fetch")>>
    /\ pc' = "done"
    /\ UNCHANGED <<lifecycle, url, base_url, text_block_count, text_image_count, soup, doc, stack,
                   calls, saved, visited, rendered, arg, ret>>

\* "except asyncio.TimeoutError"
FetchTimeout ==
    /\ pc = "fetching"
    /\ signals' = signals \o <<Emit("error", "request_timeout"),
                               Emit("log_update", "timed_out")>>
    /\ pc' = "done"
    /\ UNCHANGED <<lifecycle, url, base_url, text_block_count, text_image_count, soup, doc, stack,
                   calls, saved, visited, rendered, arg, ret>>

\* "except Exception" for an exception of the session, the request, the
\* read of the body or the parser
FetchRaises ==
    /\ pc = "fetching"
    /\ signals' = signals \o <<Emit("error", "fetch_exception"),
                               Emit("log_update", "error_during_extraction")>>
    /\ pc' = "done"
    /\ UNCHANGED <<lifecycle, url, base_url, text_block_count, text_image_count, soup, doc, stack,
                   calls, saved, visited, rendered, arg, ret>>

\* status 200: the body is read and parsed, "Parsing content..." is logged
FetchOk ==
    /\ pc = "fetching"
    /\ soup' \in RunPages
    /\ signals' = Append(signals, Emit("log_update", "parsing"))
    /\ pc' = "ready"
    /\ UNCHANGED <<lifecycle, url, base_url, text_block_count, text_image_count, doc, stack,
                   calls, saved, visited, rendered, arg, ret>>

\* extract calls _save_to_docx on the parsed page
ExtractSave == pc = "ready" /\ SaveToDocxBegin

\* mutant: every handler layer reports the exception with an error signal
SaveRaisedSignals_PerLayer ==
    <<Emit("log_update", "error_saving_document"), Emit("error", "save_exception"),
      Emit("error", "save_exception"), Emit("log_update", "error_during_extraction"),
      Emit("error", "save_exception"), Emit("log_update", "extraction_failed")>>

\* the signals of an exception raised in _save_to_docx: its handler logs
\* and raises again, the handler of extract emits error and logs
SaveRaisedSignals ==
    <<Emit("log_update", "error_saving_document"), Emit("error", "save_exception"),
      Emit("log_update", "error_during_extraction")>>

\* a statement of _save_to_docx raises: while rendering or in doc.save
SaveToDocxRaise ==
    /\ pc = "walk"
    /\ signals' = signals \o SaveRaisedSignals
    /\ pc' = "done"
    /\ UNCHANGED <<lifecycle, url, base_url, text_block_count, text_image_count, soup, doc, stack,
                   calls, saved, visited, rendered, arg, ret>>

\* what _add_seo_metadata_table has appended when one of its statements
\* raises: the header alone (n = 0), or the header and the table with the
\* rows before row n filled, the label of row n set and the rest empty
SeoRaisedRows(rows, n) ==
    [i \in 1..Len(rows) |->
        IF i < n THEN rows[i]
        ELSE IF i = n THEN <<rows[i][1], <<>>>>
        ELSE <<<<>>, <<>>>>]

SeoRaisedBlocks(blocks, n) ==
    IF n = 0 THEN <<blocks[1]>>
    ELSE <<blocks[1], [blocks[2] EXCEPT !.rows = SeoRaisedRows(blocks[2].rows, n)]>>

\* the end of _save_to_docx when _add_seo_metadata_table raises: its handler
\* logs and returns, and the document is saved
SaveToDocxEndSeoRaised ==
    /\ pc = "walk"
    /\ stack = <<>>
    /\ \E n \in 0..6 :
          doc' = doc \o <<Spacer("seo_spacer", <<>>)>>
                     \o SeoRaisedBlocks(SeoMetadataBlocks(soup, url), n)
    /\ saved' = Append(saved, doc')
    /\ signals' = Append(signals, Emit("log_update", "error_adding_seo"))
    /\ pc' = "saved"
    /\ UNCHANGED <<lifecycle, url, base_url, text_block_count, text_image_count, soup, stack,
                   calls, visited, rendered, arg, ret>>

\* _save_to_docx has returned the path: log and finished
EmitFinished ==
    /\ pc = "saved"
    /\ signals' = signals \o <<Emit("log_update", "document_saved"),
                               Emit("finished", "extract")>>
    /\ pc' = "done"
    /\ UNCHANGED <<lifecycle, url, base_url, text_block_count, text_image_count, soup, doc, stack,
                   calls, saved, visited, rendered, arg, ret>>

NextRun ==
    \/ RunStart \/ FetchStatus \/ FetchTimeout \/ FetchRaises \/ FetchOk
    \/ ExtractSave \/ WalkElement \/ WalkString \/ SaveToDocxEnd
    \/ SaveToDocxEndSeoRaised \/ SaveToDocxRaise \/ EmitFinished

\* the thread of a new worker, not started
InitRun ==
    /\ url = U_page1
    /\ base_url = BaseUrl(U_page1)
    /\ text_block_count = 0
    /\ text_image_count = 0
    /\ soup = Page(<<>>)
    /\ doc = <<>>
    /\ stack = <<>>
    /\ pc = "start"
    /\ calls = 0
    /\ saved = <<>>
    /\ visited = <<>>
    /\ rendered = <<>>
    /\ arg = <<>>
    /\ ret = <<>>
    /\ signals = <<>>
    /\ WindowInit

SpecRun == InitRun /\ [][NextRun]_vars

(***************************************************************************)
(* The crawler's walker: CrawlerThread._save_to_docx, _process_element,    *)
(* _process_table and _process_special_component of crawler_worker.py.     *)
(***************************************************************************)
S_DrupalBlockOpen == <<"[", "D", "R", "U", "P", "A", "L", " ", "B", "L", "O", "C", "K", ":", " ">>
S_unknown == <<"u", "n", "k", "n", "o", "w", "n">>
C_block == <<"b", "l", "o", "c", "k">>
T_b1 == <<"b", "1">>
DrupalMarkerFmt == {"size9", "grey128", "italic"}

\* element.get('data-block-plugin-id') or element.get('id') or 'unknown'
CrawlerBlockId(element) ==
    OrElse(element.attrs.data_block_plugin_id, OrElse(element.attrs.id, S_unknown))

\* is_drupal_block
IsDrupalBlock(element) == element.tag \in ContainerTags /\ InSeq(C_block, element.class)

\* "If it's a Drupal block, add a marker"
DrupalBlockMarker(element, path) ==
    IF IsDrupalBlock(element)
    THEN <<Paragraph("Normal",
                     <<Run(S_DrupalBlockOpen \o CrawlerBlockId(element) \o S_Close,
                           DrupalMarkerFmt)>>,
                     "drupal_block_marker", path)>>
    ELSE <<>>

\* the cells of one row of the crawler's table, the th cells bold
CrawlerRowCells(root, cells, col_count) ==
    [j \in 1..col_count |->
        IF j <= Len(cells)
        THEN <<Run(GetTextStrip(NodeAt(root, cells[j])),
                   IF NodeAt(root, cells[j]).tag = "th" THEN {"bold"} ELSE {})>>
        ELSE <<>>]

CrawlerTable(root, path, rows, col_count) ==
    IF rows = <<>> THEN <<>>
    ELSE <<Table("Light Grid Accent 1",
                 [i \in 1..Len(rows) |->
                     CrawlerRowCells(root, FindAllTags(root, rows[i], CellTags), col_count)],
                 "crawler_table", path)>>

\* the direct li children with text, each as one list paragraph
CrawlerListItems(root, path, element) ==
    [i \in 1..Len(SelectSeq(DirectItems(root, element, path),
                            LAMBDA q : GetTextStrip(NodeAt(root, q)) # <<>>)) |->
        Paragraph(IF element.tag = "ul" THEN "List Bullet" ELSE "List Number",
                  TextRuns(GetTextStrip(NodeAt(root,
                      SelectSeq(DirectItems(root, element, path),
                                LAMBDA q : GetTextStrip(NodeAt(root, q)) # <<>>)[i]))),
                  "crawler_list", path)]

\* summary_text of the crawler's component handler
CrawlerTextParts(root, path, text_containers) ==
    IF text_containers # <<>>
    THEN TextsOf(root, SelectSeq(text_containers,
                                 LAMBDA q : Len(GetTextStrip(NodeAt(root, q))) > 10))
    ELSE TagTextParts(root, path)

CrawlerSummary(root, path) ==
    OrElse(Join(DedupFrom(CrawlerTextParts(root, path, FindAllTextContainers(root, path)),
                          1, {}),
                S_BlankLine),
           Truncate(GetTextSepStrip(NodeAt(root, path), S_Space), SummaryLimit))

CrawlerImageCell(root, img_tag) ==
    IF img_tag # <<>>
    THEN <<Run(S_IMAGE, {"bold"}), Plain(NodeAt(root, img_tag[1]).attrs.src)>>
    ELSE <<Run(S_NoImage, {"italic"})>>

\* CrawlerThread._process_special_component
CrawlerSpecialComponent(root, path, component_name) ==
    <<Paragraph("Normal", <<Run(S_ComponentOpen \o component_name \o S_Close, MarkerFmt)>>,
                "crawler_component_marker", path),
      Table("Table Grid",
            << <<CrawlerImageCell(root, First(FindAllTags(root, path, {"img"}))),
                 <<Plain(CrawlerSummary(root, path))>> >> >>,
            "crawler_component_table", path),
      Spacer("crawler_component_spacer", path)>>

\* "Process based on tag type"
CrawlerProcessTag(root, path, element, marker, tbc, tic) ==
    IF element.tag \in {"h1"} \cup HeadingTags
    THEN Outcome(marker \o
                 (IF GetTextStrip(element) # <<>>
                  THEN <<Heading(IF element.tag = "h1" THEN 1 ELSE HeadingLevel(element.tag),
                                 TextRuns(GetTextStrip(element)), "crawler_heading", path)>>
                  ELSE <<>>),
                 tbc, tic, FALSE, <<>>)
    ELSE IF element.tag = "p"
    THEN Outcome(marker \o
                 (IF Len(GetTextStrip(element)) > 1
                  THEN <<Paragraph("Normal", TextRuns(GetTextStrip(element)),
                                   "crawler_paragraph", path)>>
                  ELSE <<>>),
                 tbc, tic, FALSE, <<>>)
    ELSE IF element.tag \in {"ul", "ol"}
    THEN Outcome(marker \o CrawlerListItems(root, path, element), tbc, tic, FALSE, <<>>)
    ELSE IF element.tag = "table"
    THEN Outcome(marker \o CrawlerTable(root, path, FindAllTags(root, path, {"tr"}),
                    IF FindAllTags(root, path, {"tr"}) = <<>> THEN 0
                    ELSE ColCount(root, FindAllTags(root, path, {"tr"}))),
                 tbc, tic, FALSE, <<>>)
    ELSE Outcome(marker, tbc, tic, FALSE, ChildPaths(element, path))

\* CrawlerThread._process_element: the component test comes before the marker
CrawlerProcessNode(root, path, element, tbc, tic) ==
    IF element.tag \in SkipTags THEN Outcome(<<>>, tbc, tic, FALSE, <<>>)
    ELSE IF IsComponentName(ComponentName(element))
    THEN Outcome(CrawlerSpecialComponent(root, path, ComponentName(element)[1]),
                 tbc, tic, TRUE, <<>>)
    ELSE CrawlerProcessTag(root, path, element, DrupalBlockMarker(element, path), tbc, tic)

CrawlerProcessElement(root, path, tbc, tic) ==
    CrawlerProcessNode(root, path, NodeAt(root, path), tbc, tic)

\* CrawlerThread._save_to_docx up to the call of _process_element
CrawlerSaveToDocxBegin ==
    /\ pc = "crawler_ready"
    /\ doc' = HeaderBlocks(url) \o NoMainBlocks(MainContent(soup))
    /\ stack' = MainContent(soup)
    /\ visited' = <<>>
    /\ rendered' = <<>>
    /\ pc' = "crawl"
    /\ UNCHANGED <<lifecycle, url, base_url, text_block_count, text_image_count, soup, calls, saved,
                   arg, ret, signals>>

\* one call of the crawler's _process_element
CrawlerWalkElement ==
    /\ pc = "crawl"
    /\ stack # <<>>
    /\ IsTag(NodeAt(soup, Head(stack)))
    /\ ApplyOutcome(CrawlerProcessElement(soup, Head(stack), text_block_count,
                                          text_image_count))
    /\ visited' = Append(visited, Head(stack))
    /\ UNCHANGED <<lifecycle, url, base_url, soup, pc, calls, saved, arg, ret, signals>>

\* one iteration of the crawler's loop over children that meets a text fragment
CrawlerWalkString ==
    /\ pc = "crawl"
    /\ stack # <<>>
    /\ ~IsTag(NodeAt(soup, Head(stack)))
    /\ doc' = doc \o StrayText(Strip(NodeAt(soup, Head(stack)).text), Head(stack))
    /\ stack' = Tail(stack)
    /\ UNCHANGED <<lifecycle, url, base_url, text_block_count, text_image_count, soup, pc, calls,
                   saved, visited, rendered, arg, ret, signals>>

\* doc.save and the log of the crawler
CrawlerSaveToDocxEnd ==
    /\ pc = "crawl"
    /\ stack = <<>>
    /\ saved' = Append(saved, doc)
    /\ signals' = Append(signals, Emit("log_update", "saved_word_document"))
    /\ pc' = "crawled"
    /\ UNCHANGED <<lifecycle, url, base_url, text_block_count, text_image_count, soup, doc, stack,
                   calls, visited, rendered, arg, ret>>

NextCrawler ==
    CrawlerSaveToDocxBegin \/ CrawlerWalkElement \/ CrawlerWalkString \/ CrawlerSaveToDocxEnd

\* pages of Drupal blocks: with a plugin id and an id, with an id, with
\* neither, and with a component class
BlockDiv(class, plugin_id, id) ==
    ElemA("div", class, [NoAttrs EXCEPT !.data_block_plugin_id = plugin_id, !.id = id], <<>>)
CrawlerPages ==
    {Page(f) : f \in Forests(MaxNodes, {P_Body, Stray},
                             {BlockDiv(<<C_block>>, T_b1, T_x), BlockDiv(<<C_block>>, <<>>, T_x),
                              BlockDiv(<<C_layout, C_block>>, <<>>, <<>>),
                              BlockDiv(<<C_block, C_component_card>>, T_b1, <<>>)})}

InitCrawler ==
    /\ url = U_page1
    /\ base_url = BaseUrl(U_page1)
    /\ text_block_count = 0
    /\ text_image_count = 0
    /\ soup \in CrawlerPages
    /\ doc = <<>>
    /\ stack = <<>>
    /\ pc = "crawler_ready"
    /\ calls = 0
    /\ saved = <<>>
    /\ visited = <<>>
    /\ rendered = <<>>
    /\ arg = <<>>
    /\ ret = <<>>
    /\ signals = <<>>
    /\ WindowInit

SpecCrawler == InitCrawler /\ [][NextCrawler]_vars

(***************************************************************************)
(* The crawler window and its thread: start_crawling, stop_crawling and    *)
(* crawl_finished of crawler_gui.py, stop, run and main of CrawlerThread.  *)
(* The handlers of the window run one at a time in the GUI thread; the     *)
(* finished signal of the CrawlerThread is emitted in the worker thread    *)
(* and delivered to crawl_finished by the event loop of the window.        *)
(***************************************************************************)
MaxStarts == 2
MaxUrls == 2

\* the lines of the url box: pages and sitemaps (paths ending in ".xml")
UrlInputs == UNION {[1..n -> {"page", "xml"}] : n \in 1..MaxUrls}

\* what _get_sitemap_urls returns: the loc entries, [] on a failure
SitemapUrls == {<<>>, <<"page">>, <<"page", "page">>}

\* the variables of the extractor, which the window does not touch
extraction == <<url, base_url, text_block_count, text_image_count, soup, doc, stack,
                pc, calls, saved, visited, rendered, arg, ret>>

\* QThread.isRunning: start was called and run has not returned
IsRunning == thread \notin {"none", "returned"}

\* start_crawling with at least one url, an output folder and search terms
\* where the mode asks for them (otherwise it warns and returns): the
\* buttons are switched, a CrawlerThread is created with stopped = False,
\* finished is connected to crawl_finished and the thread is started.  The
\* handler can only be triggered while the Start button is enabled.
StartCrawling ==
    /\ start_button
    /\ started < MaxStarts
    /\ urls' \in UrlInputs
    /\ start_button' = FALSE
    /\ stop_button' = TRUE
    /\ thread' = "start"
    /\ stopped' = FALSE
    /\ all_urls_to_check' = <<>>
    /\ processed' = 0
    /\ started' = started + 1
    /\ UNCHANGED <<extraction, signals, queued>>

\* stop_crawling while the thread is running: CrawlerThread.stop logs and
\* sets stopped, and the Stop button is disabled.  With no running thread
\* the handler does nothing.
StopCrawling ==
    /\ stop_button
    /\ IsRunning
    /\ signals' = Append(signals, Emit("log_update", "stopping_crawler"))
    /\ stopped' = TRUE
    /\ stop_button' = FALSE
    /\ UNCHANGED <<extraction, start_button, thread, urls, all_urls_to_check, processed,
                   queued, started>>

\* crawl_finished, the slot of the finished signal of the thread
CrawlFinished ==
    /\ queued > 0
    /\ queued' = queued - 1
    /\ start_button' = TRUE
    /\ stop_button' = FALSE
    /\ UNCHANGED <<extraction, signals, thread, stopped, urls, all_urls_to_check,
                   processed, started>>

\* run calls main, which builds the patterns and the workbooks and opens
\* the session
MainSetup ==
    /\ thread = "start"
    /\ thread' = "collect"
    /\ UNCHANGED <<extraction, signals, start_button, stop_button, stopped, urls,
                   all_urls_to_check, processed, queued, started>>

\* one turn of "for url in self.urls": break when stopped, the urls of a
\* sitemap or the url itself are added; after the loop the tasks are built
MainCollect ==
    /\ thread = "collect"
    /\ IF urls = <<>> \/ stopped
       THEN /\ thread' = "crawl"
            /\ UNCHANGED <<urls, all_urls_to_check, signals>>
       ELSE /\ urls' = Tail(urls)
            /\ IF Head(urls) = "xml"
               THEN /\ signals' = Append(signals, Emit("log_update", "fetching_sitemap"))
                    /\ \E found \in SitemapUrls :
                          all_urls_to_check' = all_urls_to_check \o found
               ELSE /\ all_urls_to_check' = Append(all_urls_to_check, Head(urls))
                    /\ signals' = signals
            /\ thread' = thread
    /\ UNCHANGED <<extraction, start_button, stop_button, stopped, processed, queued,
                   started>>

\* one turn of "for i, future in enumerate(asyncio.as_completed(tasks))":
\* break when stopped, else the result is awaited and put in a workbook,
\* progress and "Processed i/n" are emitted; after the loop the session is
\* closed
MainCrawl ==
    /\ thread = "crawl"
    /\ IF processed < Len(all_urls_to_check) /\ ~stopped
       THEN /\ processed' = processed + 1
            /\ signals' = signals \o <<Emit("progress_update", "progress"),
                                       Emit("log_update", "processed")>>
            /\ thread' = thread
       ELSE /\ thread' = "check"
            /\ UNCHANGED <<processed, signals>>
    /\ UNCHANGED <<extraction, start_button, stop_button, stopped, urls,
                   all_urls_to_check, queued, started>>

\* "if not self.stopped": the workbooks are saved, two logs and finished
\* are emitted; "else": "Crawling stopped by user." is logged and main
\* ends, and with it run
MainEnd ==
    /\ thread = "check"
    /\ IF ~stopped
       THEN /\ signals' = signals \o <<Emit("log_update", "saving_results"),
                                       Emit("log_update", "crawling_completed"),
                                       Emit("log_update", "total_pages"),
                                       Emit("finished", "main")>>
            /\ queued' = queued + 1
            /\ thread' = "emitted"
       ELSE /\ signals' = Append(signals, Emit("log_update", "stopped_by_user"))
            /\ queued' = queued
            /\ thread' = "returned"
    /\ UNCHANGED <<extraction, start_button, stop_button, stopped, urls,
                   all_urls_to_check, processed, started>>

\* main has emitted finished: asyncio.run and run return
RunReturns ==
    /\ thread = "emitted"
    /\ thread' = "returned"
    /\ UNCHANGED <<extraction, signals, start_button, stop_button, stopped, urls,
                   all_urls_to_check, processed, queued, started>>

\* a statement of main raises (a workbook cannot be created or saved, the
\* session fails): the handlers of run log the exception and run returns
RunCatches ==
    /\ \/ thread \in {"start", "collect", "crawl"}
       \/ thread = "check" /\ ~stopped
    /\ signals' = Append(signals, Emit("log_update", "unexpected_error"))
    /\ thread' = "returned"
    /\ UNCHANGED <<extraction, start_button, stop_button, stopped, urls,
                   all_urls_to_check, processed, queued, started>>

\* the steps of the worker thread
ThreadStep == MainSetup \/ MainCollect \/ MainCrawl \/ MainEnd \/ RunReturns \/ RunCatches

NextLifecycle ==
    \/ StartCrawling \/ StopCrawling \/ CrawlFinished
    \/ MainSetup \/ MainCollect \/ MainCrawl \/ MainEnd \/ RunReturns \/ RunCatches

\* the window after its construction
InitLifecycle ==
    /\ url = U_page1
    /\ base_url = BaseUrl(U_page1)
    /\ text_block_count = 0
    /\ text_image_count = 0
    /\ soup = Page(<<>>)
    /\ doc = <<>>
    /\ stack = <<>>
    /\ pc = "window"
    /\ calls = 0
    /\ saved = <<>>
    /\ visited = <<>>
    /\ rendered = <<>>
    /\ arg = <<>>
    /\ ret = <<>>
    /\ signals = <<>>
    /\ WindowInit

SpecLifecycle == InitLifecycle /\ [][NextLifecycle]_vars

\* a started thread is scheduled until run returns, and the event loop of
\* the window delivers an emitted signal; nothing makes the user press a
\* button
FairLifecycle ==
    /\ SpecLifecycle
    /\ WF_vars(ThreadStep)
    /\ WF_vars(CrawlFinished)

(***************************************************************************)
(* Properties.                                                             *)
(***************************************************************************)
InCall == pc \in {"walk", "saved"}

BlocksBy(d, by) == SelectSeq(d, LAMBDA b : b.by = by)

\* C1: during a call the k-th Text Image marker appended so far reads
\* "Text Image k" and the k-th Text Block marker reads "Text Block k", and
\* each counter equals the number of markers of its kind appended so far.
C1_MarkersNumbered ==
    InCall =>
        LET ti == BlocksBy(doc, "text_image_marker")
            tb == BlocksBy(doc, "text_block_marker")
        IN  /\ \A k \in 1..Len(ti) :
                  /\ Len(ti[k].runs) = 1
                  /\ ti[k].runs[1].text =
                         S_ComponentOpen \o S_TextImage \o S_Space \o IntToStr(k) \o S_Close
            /\ \A k \in 1..Len(tb) :
                  /\ Len(tb[k].runs) = 1
                  /\ tb[k].runs[1].text = S_TextBlockOpen \o IntToStr(k) \o S_Close
            /\ text_image_count = Len(ti)
            /\ text_block_count = Len(tb)

\* a walk that has appended two Text Image markers and two Text Block markers
C1_Witness ==
    /\ pc = "walk"
    /\ Len(BlocksBy(doc, "text_image_marker")) >= 2
    /\ Len(BlocksBy(doc, "text_block_marker")) >= 2

\* C2: every call of _save_to_docx on the same page writes the same document
\* as the call before it, on the same worker or on a new one, and every walk
\* starts with both counters at 0.
C2_Idempotent ==
    /\ \A i \in 1..Len(saved) : saved[i] = saved[1]
    /\ (pc = "walk" /\ visited = <<>>) => (text_block_count = 0 /\ text_image_count = 0)

\* a second call on the same worker has written a document with numbered markers
C2_Witness ==
    /\ pc = "saved"
    /\ Len(saved) = 2
    /\ base_url = BaseUrl(url)
    /\ text_image_count >= 1
    /\ text_block_count >= 1
    /\ Len(BlocksBy(saved[2], "text_image_marker")) >= 1

\* the text of cell c of row r of a table block
CellText(b, r, c) == Join([k \in 1..Len(b.rows[r][c]) |-> b.rows[r][c][k].text], <<>>)

\* the data rows of an articles table whose URL cell reads u
RowsWithUrl(b, u) == {r \in 3..Len(b.rows) : CellText(b, r, 2) = u}

\* the anchors below p whose href resolves to u, in document order
LinksTo(p, u) ==
    SelectSeq(FindAllTags(soup, p, {"a"}),
              LAMBDA q : MakeAbsolute(base_url, HrefOf(soup, q)) = u)

\* C3: in every rendered Articles List table, every absolute URL that an
\* anchor of the component resolves to has exactly one data row, and that row
\* carries the title of the first anchor resolving to it.
C3_OneRowPerResolvedUrl ==
    \A i \in 1..Len(doc) :
        doc[i].by = "articles_table" =>
            \A q \in {FindAllTags(soup, doc[i].at, {"a"})[k] :
                         k \in 1..Len(FindAllTags(soup, doc[i].at, {"a"}))} :
                LET u == MakeAbsolute(base_url, HrefOf(soup, q))
                IN  u # <<>> =>
                        /\ Cardinality(RowsWithUrl(doc[i], u)) = 1
                        /\ \A r \in RowsWithUrl(doc[i], u) :
                               CellText(doc[i], r, 1) =
                                   ArticleTitle(soup, doc[i].at, LinksTo(doc[i].at, u)[1])

\* all paths of the page, the root included
AllPaths == <<<<>>>> \o DescPaths(soup, <<>>)

\* is the node at path, or one of its ancestors, excluded by a class token
UnderExcludedClass(path) ==
    \E k \in 0..Len(path) : ClassSet(NodeAt(soup, SubSeq(path, 1, k))) \cap exclusions # {}

\* the trimmed, non-empty texts of the fragments at or below an excluded element
ExcludedTexts ==
    {Strip(NodeAt(soup, AllPaths[k]).text) :
        k \in {j \in 1..Len(AllPaths) :
                  /\ ~IsTag(NodeAt(soup, AllPaths[j]))
                  /\ UnderExcludedClass(AllPaths[j])
                  /\ Strip(NodeAt(soup, AllPaths[j]).text) # <<>>}}

\* the texts a block carries: of its runs and of the runs of its cells
BlockTexts(b) ==
    {b.runs[k].text : k \in 1..Len(b.runs)}
    \cup UNION {UNION {{b.rows[r][c][k].text : k \in 1..Len(b.rows[r][c])} :
                          c \in 1..Len(b.rows[r])} :
                   r \in 1..Len(b.rows)}

\* C4: no block of the Output Document is appended for an element at or
\* below an element excluded by class, and no text of a block holds the text
\* of a fragment at or below such an element.
C4_ExclusionLaw ==
    \A i \in 1..Len(doc) :
        /\ ~UnderExcludedClass(doc[i].at)
        /\ \A t \in BlockTexts(doc[i]) : \A x \in ExcludedTexts : ~Contains(t, x)

\* a reference that starts with one '/' and has no '.' or '..' segment
PlainPath(r) ==
    /\ StartsWith(r, S_slash)
    /\ ~StartsWith(r, S_slash \o S_slash)
    /\ \A k \in 1..Len(Split(r, "/")) : Split(r, "/")[k] \notin {S_dot, S_dotdot}

\* C5 as stated: '' for an empty or missing reference, the reference itself
\* when it starts with 'http', and origin + reference for every reference
\* that starts with '/'.
C5_UrlLaw ==
    pc = "resolved" =>
        /\ ArgString(arg) = <<>> => ret[1] = <<>>
        /\ StartsWith(ArgString(arg), S_http) => ret[1] = ArgString(arg)
        /\ StartsWith(ArgString(arg), S_slash) => ret[1] = base_url \o ArgString(arg)

\* C5 amended: as above, with origin + reference only for references that
\* start with a single '/' and hold no '.' or '..' segment.
C5_UrlLawPlainPaths ==
    pc = "resolved" =>
        /\ ArgString(arg) = <<>> => ret[1] = <<>>
        /\ StartsWith(ArgString(arg), S_http) => ret[1] = ArgString(arg)
        /\ PlainPath(ArgString(arg)) => ret[1] = base_url \o ArgString(arg)

\* '/a.jpg' has been resolved against the origin of the second page
C5_Witness ==
    /\ pc = "resolved"
    /\ url = U_page2
    /\ arg = <<R_a_jpg>>
    /\ ret = <<BaseUrl(U_page2) \o R_a_jpg>>

\* the positions of the level-1 headings of the document
TopHeadings == {i \in 1..Len(doc) : doc[i].kind = "Heading" /\ doc[i].level = 1}

\* at most one level-1 heading; it exists iff the page has an h1, carries the
\* text of the first h1, is appended by the pre-walk step and follows nothing
\* but the two header blocks
OneTopHeading ==
    /\ Cardinality(TopHeadings) <= 1
    /\ (TopHeadings # {}) <=> (FindAllTags(soup, <<>>, {"h1"}) # <<>>)
    /\ \A i \in TopHeadings :
          /\ doc[i].by = "h1"
          /\ doc[i].at = FindAllTags(soup, <<>>, {"h1"})[1]
          /\ doc[i].runs = TextRuns(GetTextStrip(NodeAt(soup, doc[i].at)))
          /\ \A j \in 1..(i - 1) : doc[j].by = "header"

\* C6 as stated: one level-1 heading as above, and the walk appends no block
\* at all for an h1 it meets.
C6_TopHeadingOnly ==
    InCall =>
        /\ OneTopHeading
        /\ \A i \in 1..Len(doc) : NodeAt(soup, doc[i].at).tag = "h1" => doc[i].by = "h1"

\* C6 amended: one level-1 heading as above, and the only block the walk
\* appends for an h1 it meets is the Text Block marker of an h1 that carries
\* the seven Text Block classes.
C6_TopHeadingAndMarkers ==
    InCall =>
        /\ OneTopHeading
        /\ \A i \in 1..Len(doc) :
              NodeAt(soup, doc[i].at).tag = "h1" =>
                  \/ doc[i].by = "h1"
                  \/ /\ doc[i].by = "text_block_marker"
                     /\ IsTextBlock(NodeAt(soup, doc[i].at))
                     /\ doc[i].at \in {visited[k] : k \in 1..Len(visited)}

\* a page with two h1 elements has been written: the walk met both and the
\* document holds the one heading of the pre-walk step
C6_Witness ==
    /\ pc = "saved"
    /\ Len(FindAllTags(soup, <<>>, {"h1"})) = 2
    /\ \A k \in 1..2 : FindAllTags(soup, <<>>, {"h1"})[k] \in {visited[j] : j \in 1..Len(visited)}
    /\ Cardinality(TopHeadings) = 1
    /\ doc[3].kind = "Heading"
    /\ doc[3].runs = <<Plain(T_Hi \o T_x)>>

\* the positions of the blocks appended by the Text Image renderer for the
\* element at p
TextImageAt(p) ==
    {i \in 1..Len(doc) :
        /\ doc[i].at = p
        /\ doc[i].by \in {"text_image_marker", "text_image_table",
                          "text_image_spacer", "text_image_body"}}

Lowest(S) == CHOOSE i \in S : \A j \in S : i <= j

\* the text of column 0 and of column 1 for the element at p
ImageCellText(p) ==
    IF FindAllTags(soup, p, {"img"}) = <<>> THEN S_ImagePositionLeft \o S_NoImage
    ELSE S_ImagePositionLeft \o S_IMAGE
         \o MakeAbsolute(base_url, NodeAt(soup, FindAllTags(soup, p, {"img"})[1]).attrs.src)

AltCellText(p) ==
    IF FindAllTags(soup, p, {"img"}) = <<>> THEN S_AltText \o S_NoAltText
    ELSE IF Strip(NodeAt(soup, FindAllTags(soup, p, {"img"})[1]).attrs.alt) = <<>>
    THEN S_AltText \o S_NoAltText
    ELSE S_AltText \o Strip(NodeAt(soup, FindAllTags(soup, p, {"img"})[1]).attrs.alt)

\* the blocks of the element at p are consecutive and start at lo with the
\* marker, then the one table, then spacers and body blocks only
TextImageLayout(p, lo) ==
    /\ TextImageAt(p) = lo..(lo + Cardinality(TextImageAt(p)) - 1)
    /\ Cardinality(TextImageAt(p)) >= 2
    /\ doc[lo].by = "text_image_marker"
    /\ doc[lo].kind = "Paragraph"
    /\ doc[lo].runs =
          <<Run(S_ComponentOpen \o S_TextImage \o S_Space
                \o IntToStr(Len(BlocksBy(SubSeq(doc, 1, lo), "text_image_marker")))
                \o S_Close, MarkerFmt)>>
    /\ doc[lo + 1].by = "text_image_table"
    /\ doc[lo + 1].kind = "Table"
    /\ Len(doc[lo + 1].rows) = 1
    /\ Len(doc[lo + 1].rows[1]) = 2
    /\ CellText(doc[lo + 1], 1, 1) = ImageCellText(p)
    /\ CellText(doc[lo + 1], 1, 2) = AltCellText(p)
    /\ \A i \in TextImageAt(p) \ {lo, lo + 1} :
          /\ doc[i].by \in {"text_image_spacer", "text_image_body"}
          /\ doc[i].kind \in {"Paragraph", "Heading"}

\* C7: for every Text Image element the renderer was invoked for, its blocks
\* are the marker "Text Image N", then exactly one 1 x 2 table (image
\* position and absolute src of the first img or "No Image"; alt text or
\* "No Alt Text"), then the body blocks; and the renderer appends such
\* blocks for no other element.
C7_TextImageOrder ==
    InCall =>
        /\ \A k \in 1..Len(rendered) :
              Classify(NodeAt(soup, rendered[k]).class) = <<S_TextImage>> =>
                  /\ TextImageAt(rendered[k]) # {}
                  /\ TextImageLayout(rendered[k], Lowest(TextImageAt(rendered[k])))
        /\ \A i \in 1..Len(doc) :
              doc[i].by \in {"text_image_marker", "text_image_table",
                             "text_image_spacer", "text_image_body"}
              => /\ doc[i].at \in {rendered[k] : k \in 1..Len(rendered)}
                 /\ Classify(NodeAt(soup, doc[i].at).class) = <<S_TextImage>>

\* a Text Image with two images, the first with a blank alt, and a paragraph
\* has been rendered: "No Alt Text", the src of the first image, then the
\* paragraph below the table
C7_Witness ==
    /\ pc = "saved"
    /\ \E k \in 1..Len(rendered) :
          /\ Len(FindAllTags(soup, rendered[k], {"img"})) = 2
          /\ NodeAt(soup, FindAllTags(soup, rendered[k], {"img"})[1]) = Img_blank
          /\ \E i \in TextImageAt(rendered[k]) :
                /\ doc[i].kind = "Paragraph"
                /\ doc[i].by = "text_image_body"
                /\ doc[i].runs = TextRuns(T_Title)
                /\ CellText(doc[Lowest(TextImageAt(rendered[k])) + 1], 1, 2)
                      = S_AltText \o S_NoAltText
                /\ CellText(doc[Lowest(TextImageAt(rendered[k])) + 1], 1, 1)
                      = S_ImagePositionLeft \o S_IMAGE \o R_article_1_abs

\* the element descendants of the element at p with a tag in tags
Below(p, tags) ==
    SelectSeq(DescPaths(NodeAt(soup, p), p), LAMBDA q : NodeAt(soup, q).tag \in tags)

\* the positions of the tables appended by the table rule for the element at p
TablesAt(p) == {i \in 1..Len(doc) : doc[i].at = p /\ doc[i].by = "_process_table"}

\* the number of cells of the longest row below p
WidestRow(p) ==
    CHOOSE m \in 0..Len(DescPaths(NodeAt(soup, p), p)) :
        /\ \A r \in 1..Len(Below(p, {"tr"})) : Len(Below(Below(p, {"tr"})[r], {"td", "th"})) <= m
        /\ \E r \in 1..Len(Below(p, {"tr"})) : Len(Below(Below(p, {"tr"})[r], {"td", "th"})) = m

\* block b renders the rows below p: one row per tr, every row as wide as
\* the longest, the text of the cells in place and nothing beyond them
RendersRows(b, p) ==
    /\ b.kind = "Table"
    /\ Len(b.rows) = Len(Below(p, {"tr"}))
    /\ \A r \in 1..Len(b.rows) :
          /\ Len(b.rows[r]) = WidestRow(p)
          /\ \A j \in 1..Len(b.rows[r]) :
                IF j <= Len(Below(Below(p, {"tr"})[r], {"td", "th"}))
                THEN CellText(b, r, j)
                        = GetTextStrip(NodeAt(soup, Below(Below(p, {"tr"})[r], {"td", "th"})[j]))
                ELSE b.rows[r][j] = <<>>

\* C8: a table element the walker has processed appends exactly one Table
\* with one row per tr and as many columns as its longest row has td/th
\* cells, cell (i, j) holding the trimmed flattened text of the j-th cell of
\* row i and the cells beyond a shorter row empty; without a tr it appends
\* nothing.
C8_TableRule ==
    InCall =>
        \A k \in 1..Len(visited) :
            NodeAt(soup, visited[k]).tag = "table" =>
                IF Below(visited[k], {"tr"}) = <<>> THEN TablesAt(visited[k]) = {}
                ELSE /\ Cardinality(TablesAt(visited[k])) = 1
                     /\ \A i \in TablesAt(visited[k]) : RendersRows(doc[i], visited[k])

\* a table of a row of three cells and a row of two has been rendered with
\* three columns, the third cell of the second row empty
C8_Witness ==
    /\ pc = "saved"
    /\ \E k \in 1..Len(visited), i \in 1..Len(doc) :
          /\ NodeAt(soup, visited[k]).tag = "table"
          /\ Len(Below(visited[k], {"tr"})) = 2
          /\ Len(Below(Below(visited[k], {"tr"})[1], {"td", "th"})) = 3
          /\ Len(Below(Below(visited[k], {"tr"})[2], {"td", "th"})) = 2
          /\ i \in TablesAt(visited[k])
          /\ Len(doc[i].rows[2]) = 3
          /\ CellText(doc[i], 1, 3) = <<"1", "3">>
          /\ CellText(doc[i], 2, 2) = <<"2", "2">>
          /\ doc[i].rows[2][3] = <<>>

\* a table without rows has been processed and nothing was appended for it
C8_WitnessNoRows ==
    /\ pc = "saved"
    /\ \E k \in 1..Len(visited) :
          /\ NodeAt(soup, visited[k]).tag = "table"
          /\ Below(visited[k], {"tr"}) = <<>>
          /\ TablesAt(visited[k]) = {}

\* a token that decides the classification
Decides(token) ==
    StartsWith(token, C_component_prefix) \/ token \in {C_article_hero, C_hero_image}

\* the label of a deciding token: the fixed label of a hero sentinel, else
\* the suffix after the prefix, hyphens to spaces, title-cased
LabelOf(token) ==
    IF token = C_article_hero THEN S_HeroArticle
    ELSE IF token = C_hero_image THEN S_HeroImage
    ELSE Title(Replace(Drop(token, Len(C_component_prefix)), <<"-">>, <<" ">>))

\* C9: the result of the classification is the label of the first deciding
\* token of the class list (a hero sentinel gives its fixed label, a
\* component token its humanized suffix), whatever tokens follow it, and
\* there is no result without a deciding token.
C9_FirstMatchWins ==
    pc = "classified" =>
        IF \E i \in 1..Len(arg[1]) : Decides(arg[1][i])
        THEN ret[1] = <<LabelOf(arg[1][Lowest({i \in 1..Len(arg[1]) : Decides(arg[1][i])})])>>
        ELSE ret[1] = <<>>

\* a container element with a class token that makes it a stoppable kind
IsStoppable(n) ==
    /\ n.tag \in ContainerTags
    /\ \E i \in 1..Len(n.class) : Decides(n.class[i])

\* C10: for every container element the walker has processed and not pruned
\* that carries a component token (the bare prefix included) or a hero
\* sentinel, the renderer was invoked exactly once and the walker has
\* visited none of its descendants.
C10_StoppableOwnsSubtree ==
    InCall =>
        \A k \in 1..Len(visited) :
            (IsStoppable(NodeAt(soup, visited[k])) /\ ~IsExcluded(NodeAt(soup, visited[k])))
            => /\ Cardinality({j \in 1..Len(rendered) : rendered[j] = visited[k]}) = 1
               /\ \A j \in 1..Len(visited) :
                     ~(/\ Len(visited[j]) > Len(visited[k])
                       /\ SubSeq(visited[j], 1, Len(visited[k])) = visited[k])

\* the signals emitted by the step
NewSignals == SubSeq(signals', Len(signals) + 1, Len(signals'))

\* an error signal of the fetch step
IsFetchError(e) ==
    e.name = "error" /\ e.by \in {"http_status", "request_timeout", "fetch_exception"}

\* C11: a step that reports a failed fetch emits error once and no finished,
\* ends the run and leaves the Output Document, the walk, the counters and
\* the written documents as they were; after the end of a run nothing
\* happens but the start of the next run.
C11_FetchFailureStartsNothing ==
    [][/\ (\E i \in 1..Len(NewSignals) : IsFetchError(NewSignals[i]))
          => /\ pc' = "done"
             /\ Len(SelectSeq(NewSignals, LAMBDA e : e.name = "error")) = 1
             /\ SelectSeq(NewSignals, LAMBDA e : e.name = "finished") = <<>>
             /\ UNCHANGED <<doc, stack, visited, rendered, calls, saved,
                            text_block_count, text_image_count>>
       /\ pc = "done"
          => /\ pc' = "fetching"
             /\ UNCHANGED <<doc, stack, visited, rendered, calls, saved,
                            text_block_count, text_image_count>>]_vars

\* a second run of a worker has failed on the status of the response: the
\* document and the counter of the first run are as that run left them
C11_Witness ==
    /\ pc = "done"
    /\ RunsStarted = 2
    /\ Len(signals) >= 2
    /\ signals[Len(signals) - 1] = Emit("error", "http_status")
    /\ Len(saved) = 1
    /\ doc = saved[1]
    /\ text_block_count >= 1
    /\ Len(SelectSeq(signals, LAMBDA e : e.name = "finished")) = 1

\* the positions of the "Fetching ..." logs: the starts of the runs
Starts == {i \in 1..Len(signals) : signals[i].by = "fetching"}

\* the last signal of the run started at position i
RunEnd(i) ==
    IF \E j \in Starts : j > i
    THEN Lowest({j \in Starts : j > i}) - 1
    ELSE Len(signals)

\* the finished and error signals of the run started at position i
Terminals(i) == {k \in i..RunEnd(i) : signals[k].name \in {"finished", "error"}}

\* C12: every run that has ended has emitted exactly one of finished and
\* error, a run in progress has emitted neither, and finished is emitted
\* exactly for the runs that have written their document.
C12_OneTerminalSignal ==
    /\ \A i \in Starts :
          IF RunEnd(i) = Len(signals) /\ pc # "done"
          THEN Terminals(i) = {}
          ELSE Cardinality(Terminals(i)) = 1
    /\ Len(SelectSeq(signals, LAMBDA e : e.name = "finished"))
          = Len(saved) - (IF pc = "saved" THEN 1 ELSE 0)

\* a run that failed while rendering and a run that wrote its document have
\* both ended: one error, then one finished
C12_Witness ==
    /\ pc = "done"
    /\ RunsStarted = 2
    /\ SelectSeq(signals, LAMBDA e : e.name \in {"finished", "error"})
          = <<Emit("error", "save_exception"), Emit("finished", "extract")>>
    /\ Len(saved) = 1

\* the labels of the metadata table, top down
SeoLabels ==
    <<S_InternalURL, S_MetaTitle, S_MetaDescription, S_OGTitle, S_OGDescription, S_Schema>>

\* the blocks of document d that the metadata step appended
SeoAt(d) == {i \in 1..Len(d) : d[i].by \in {"seo_header", "seo_table"}}

\* every block of the metadata step follows every block of the header, the
\* pre-walk heading step and the walk
SeoComesLast(d) == \A i \in SeoAt(d), j \in 1..Len(d) : j \notin SeoAt(d) => j < i

\* d ends with the complete metadata section: the header paragraph, then
\* the 6 x 2 table with its labels as the last block, and no other block of
\* the metadata step
SeoComplete(d) ==
    /\ Len(d) >= 2
    /\ SeoAt(d) = {Len(d) - 1, Len(d)}
    /\ d[Len(d) - 1].kind = "Paragraph"
    /\ d[Len(d) - 1].runs = <<Run(S_SeoMetadata, {"bold", "size12", "blue112"})>>
    /\ d[Len(d)].kind = "Table"
    /\ Len(d[Len(d)].rows) = 6
    /\ \A r \in 1..Len(d[Len(d)].rows) :
          /\ Len(d[Len(d)].rows[r]) = 2
          /\ CellText(d[Len(d)], r, 1) = SeoLabels[r]

IsWalkBlock(b) ==
    b.by \notin {"header", "h1", "no_main", "seo_spacer", "seo_header", "seo_table"}

\* node a comes before node b in document order and is not an ancestor of b:
\* the paths part at some position, a to the left
LeftOf(a, b) ==
    \E k \in 1..Len(a) :
        /\ k <= Len(b)
        /\ SubSeq(a, 1, k - 1) = SubSeq(b, 1, k - 1)
        /\ a[k] < b[k]

\* every block of the walk for a node precedes every block for a node to its
\* right
InTraversalOrder(d) ==
    \A i \in 1..Len(d), j \in 1..Len(d) :
        (IsWalkBlock(d[i]) /\ IsWalkBlock(d[j]) /\ LeftOf(d[i].at, d[j].at)) => i < j

\* C14: a step of the walk only appends to the Output Document, and the
\* blocks produced during the walk for A precede the blocks produced for B
\* whenever A is before B in document order and not an ancestor of B.
C14_AppendOnlyInOrder ==
    [][/\ pc = "walk" => (Len(doc') >= Len(doc) /\ SubSeq(doc', 1, Len(doc)) = doc)
       /\ InTraversalOrder(doc')]_vars

\* a document has been written in which the blocks of a rendered Text Image
\* are followed by a block of the walk for a later element, and a Text Block
\* marker by a block for an element below it
C14_Witness ==
    /\ pc = "saved"
    /\ \E i \in 1..Len(doc), j \in 1..Len(doc) :
          /\ doc[i].by = "text_image_table"
          /\ doc[j].by = "walk_paragraph"
          /\ LeftOf(doc[i].at, doc[j].at)
          /\ i < j
    /\ \E i \in 1..Len(doc), j \in 1..Len(doc) :
          /\ doc[i].by = "text_block_marker"
          /\ doc[j].by \in {"walk_paragraph", "text_image_marker"}
          /\ Len(doc[j].at) > Len(doc[i].at)
          /\ i < j

\* a path is at or under another
IsPrefix(p, q) == Len(p) <= Len(q) /\ SubSeq(q, 1, Len(p)) = p

\* the positions of the Drupal markers appended for the element at a path
MarkersAt(path) ==
    {i \in 1..Len(doc) : doc[i].by = "drupal_block_marker" /\ doc[i].at = path}

DrupalMarkerText(element) == S_DrupalBlockOpen \o CrawlerBlockId(element) \o S_Close

\* C15: in the crawler's walker every visited div/section/article carrying the
\* class 'block' has exactly one marker paragraph '[DRUPAL BLOCK: <id>]', <id>
\* being the data-block-plugin-id, else the id, else 'unknown', and the marker
\* stands before every block that comes from the element's subtree, a component
\* class on the same element notwithstanding.
C15_DrupalMarkerForEveryBlock ==
    pc \in {"crawl", "crawled"} =>
        \A k \in 1..Len(visited) :
            IsDrupalBlock(NodeAt(soup, visited[k])) =>
                /\ Cardinality(MarkersAt(visited[k])) = 1
                /\ \A m \in MarkersAt(visited[k]) :
                     /\ doc[m].runs = <<Run(DrupalMarkerText(NodeAt(soup, visited[k])),
                                            DrupalMarkerFmt)>>
                     /\ \A j \in 1..Len(doc) :
                          (j # m /\ IsPrefix(visited[k], doc[j].at)
                                 /\ doc[j].by # "header") => m < j

\* the same statement for the blocks that carry no component name: holds
C15_MarkerUnlessComponent ==
    pc \in {"crawl", "crawled"} =>
        \A k \in 1..Len(visited) :
            (IsDrupalBlock(NodeAt(soup, visited[k]))
               /\ ~IsComponentName(ComponentName(NodeAt(soup, visited[k])))) =>
                /\ Cardinality(MarkersAt(visited[k])) = 1
                /\ \A m \in MarkersAt(visited[k]) :
                     \A j \in 1..Len(doc) :
                          (j # m /\ IsPrefix(visited[k], doc[j].at)
                                 /\ doc[j].by # "header") => m < j

\* rules (a), (b) and (c) of the exclusion filter
MatchesRuleA(n) == n.tag \in {"script", "style", "nav", "footer", "header", "noscript"}
MatchesRuleB(n) == \E i \in 1..Len(n.class) : n.class[i] \in exclusions
MatchesRuleC(n) == n.attrs.id = C_nppe_feedback
MatchesExclusionRule(n) == MatchesRuleA(n) \/ MatchesRuleB(n) \/ MatchesRuleC(n)

\* the step is the visit of the element on top of the stack
VisitsTop ==
    /\ pc = "walk"
    /\ stack # <<>>
    /\ visited' = Append(visited, Head(stack))

\* no visited element is below a visited element that an exclusion rule matches
NoVisitBelowExcluded(v) ==
    \A k \in 1..Len(v) : \A l \in 1..Len(v) :
        (MatchesExclusionRule(NodeAt(soup, v[k])) /\ l # k) => ~IsPrefix(v[k], v[l])

\* C16: a visit of the walker to an element that matches exclusion rule (a),
\* (b) or (c) returns with the document and both counters unchanged and no
\* descendant of the element is ever visited, whatever Text Block, component
\* or hero classes the element carries.
C16_ExclusionFrame ==
    [][/\ (VisitsTop /\ MatchesExclusionRule(NodeAt(soup, Head(stack)))) =>
                /\ doc' = doc
                /\ text_block_count' = text_block_count
                /\ text_image_count' = text_image_count
                /\ rendered' = rendered
                /\ stack' = Tail(stack)
       /\ NoVisitBelowExcluded(visited')]_vars

\* C16 witness: a call has ended in which an element that is excluded, has
\* children, carries the seven Text Block classes and a component class was
\* visited after a Text Block had been counted
C16_Witness ==
    /\ pc = "saved"
    /\ text_block_count = 1
    /\ \E k \in 1..Len(visited) :
         /\ MatchesRuleB(NodeAt(soup, visited[k]))
         /\ C_component_newsletter \in ClassSet(NodeAt(soup, visited[k]))
         /\ IsTextBlock(NodeAt(soup, visited[k]))
         /\ NodeAt(soup, visited[k]).kids # <<>>
         /\ \E l \in 1..(k - 1) : IsTextBlock(NodeAt(soup, visited[l]))

\* the element holds the prompt of the feedback widget in a text fragment of its own
HasOwnPrompt(n) ==
    \E i \in 1..Len(n.kids) : ~IsTag(n.kids[i]) /\ Contains(n.kids[i].text, S_FeedbackPrompt)

\* the blocks of the walk that come from the element at a path or from below it
WalkBlocksFrom(path) ==
    {i \in 1..Len(doc) : IsWalkBlock(doc[i]) /\ IsPrefix(path, doc[i].at)}

\* C17: a visited element that matches none of rules (a)-(c), holds the
\* feedback prompt in its own text and has less text than the cutoff is skipped:
\* no block comes from it or from its descendants, and none of them is visited;
\* an element with the prompt and a text at or above the cutoff is not skipped:
\* once the walk has ended, every child element of it has been visited.
C17_FeedbackHeuristic ==
    InCall =>
        \A k \in 1..Len(visited) :
            (~MatchesExclusionRule(NodeAt(soup, visited[k]))
               /\ NodeAt(soup, visited[k]).tag = "div"
               /\ HasOwnPrompt(NodeAt(soup, visited[k]))) =>
                IF Len(GetText(NodeAt(soup, visited[k]))) < FeedbackCutoff
                THEN /\ WalkBlocksFrom(visited[k]) = {}
                     /\ \A l \in 1..Len(visited) :
                          l # k => ~IsPrefix(visited[k], visited[l])
                ELSE pc = "saved" =>
                        \A i \in 1..Len(NodeAt(soup, visited[k]).kids) :
                            IsTag(NodeAt(soup, visited[k]).kids[i]) =>
                                \E l \in 1..Len(visited) : visited[l] = visited[k] \o <<i>>

\* the element without the classes that name a component
IsDeciding(cls) ==
    \/ (Len(cls) >= Len(C_component_prefix)
          /\ SubSeq(cls, 1, Len(C_component_prefix)) = C_component_prefix)
    \/ cls \in {C_article_hero, C_hero_image}
Undecided(element) ==
    [element EXCEPT !.class = SelectSeq(element.class, LAMBDA cls : ~IsDeciding(cls))]

\* what the rule of a tag appends
TagRuleBlocks(tag) ==
    IF tag \in {"h2", "h3", "h4", "h5", "h6"} THEN {"walk_heading"}
    ELSE IF tag = "p" THEN {"walk_paragraph"}
    ELSE IF tag \in {"ul", "ol"} THEN {"walk_list"}
    ELSE IF tag = "table" THEN {"_process_table"}
    ELSE {}

\* C18: an element whose tag is not div, section or article is never handed to
\* the component renderer and never increments text_image_count, whatever
\* component or hero class it carries: the visit appends what the rule of its
\* tag appends, exactly as for the same element without those classes.
C18_OnlyContainersClassified ==
    [][(VisitsTop /\ NodeAt(soup, Head(stack)).tag \notin {"div", "section", "article"}) =>
          /\ rendered' = rendered
          /\ text_image_count' = text_image_count
          /\ doc' = doc \o ProcessNode(soup, base_url, Head(stack),
                                       Undecided(NodeAt(soup, Head(stack))),
                                       text_block_count, text_image_count).blocks
          /\ stack' = ProcessNode(soup, base_url, Head(stack),
                                  Undecided(NodeAt(soup, Head(stack))),
                                  text_block_count, text_image_count).children
                      \o Tail(stack)
          /\ \A i \in (Len(doc) + 1)..Len(doc') :
               doc'[i].by \in TagRuleBlocks(NodeAt(soup, Head(stack)).tag)
                              \cup {"text_block_marker"}]_vars

\* C18 witness: the walk has ended; a paragraph with the class
\* 'component--text-image' was visited and gave a paragraph, a span with the
\* class had its child walked, nothing was rendered as a component and
\* text_image_count is 0
C18_Witness ==
    /\ pc = "saved"
    /\ rendered = <<>>
    /\ text_image_count = 0
    /\ \E k \in 1..Len(visited) : \E l \in 1..Len(visited) :
         /\ NodeAt(soup, visited[k]).tag = "span"
         /\ Classify(NodeAt(soup, visited[k]).class) = <<S_TextImage>>
         /\ visited[l] = visited[k] \o <<1>>
         /\ NodeAt(soup, visited[l]).tag = "p"
         /\ Classify(NodeAt(soup, visited[l]).class) = <<S_TextImage>>
         /\ \E i \in 1..Len(doc) :
              doc[i].by = "walk_paragraph" /\ doc[i].at = visited[l]

\* the blocks appended by the step
NewBlocks == SubSeq(doc', Len(doc) + 1, Len(doc'))

\* the Text Block marker with the number n for the element at a path
IsTextBlockMarker(b, path, n) ==
    /\ b.by = "text_block_marker"
    /\ b.at = path
    /\ b.runs = <<Run(S_TextBlockOpen \o IntToStr(n) \o S_Close, TextBlockMarkerFmt)>>

\* the visit appends one Text Block marker and then the blocks of the component
MarkerThenComponent(path) ==
    /\ text_block_count' = text_block_count + 1
    /\ Len(NewBlocks) >= 2
    /\ IsTextBlockMarker(NewBlocks[1], path, text_block_count + 1)
    /\ \A i \in 2..Len(NewBlocks) :
         /\ NewBlocks[i].at = path
         /\ NewBlocks[i].by \notin {"text_block_marker", "walk_heading", "walk_paragraph",
                                    "walk_list", "walk_text", "_process_table"}
    /\ rendered' = Append(rendered, path)
    /\ stack' = Tail(stack)

\* C19: the visit of an element that is a Text Block and a stoppable component
\* kind (a div, section or article with a component token, the bare prefix
\* included, or a hero sentinel) appends exactly one Text Block marker, the
\* counter going up by one, then the blocks of the component, and the walker
\* does not descend into the children.
C19_TextBlockThenComponent ==
    [][(/\ VisitsTop
        /\ ~MatchesExclusionRule(NodeAt(soup, Head(stack)))
        /\ IsTextBlock(NodeAt(soup, Head(stack)))
        /\ IsStoppable(NodeAt(soup, Head(stack))))
       => MarkerThenComponent(Head(stack))]_vars

\* the same for the elements whose component name is not empty: holds
C19_TextBlockThenNamedComponent ==
    [][(/\ VisitsTop
        /\ ~MatchesExclusionRule(NodeAt(soup, Head(stack)))
        /\ IsTextBlock(NodeAt(soup, Head(stack)))
        /\ IsComponentName(ComponentName(NodeAt(soup, Head(stack)))))
       => MarkerThenComponent(Head(stack))]_vars

\* the element without the seven Text Block classes
NotTextBlock(element) ==
    [element EXCEPT !.class = SelectSeq(element.class, LAMBDA cls : cls \notin target_classes)]

\* the positions of the Text Block markers of the element at a path
TextBlockMarkersAt(d, path) ==
    {i \in 1..Len(d) : d[i].by = "text_block_marker" /\ d[i].at = path}

\* every visited Text Block that is no component has one marker, in front of
\* every other block that comes from its subtree
OneMarkerInFront(d, v) ==
    \A k \in 1..Len(v) :
        (/\ IsTextBlock(NodeAt(soup, v[k]))
         /\ ~MatchesExclusionRule(NodeAt(soup, v[k]))
         /\ ~IsComponentName(ComponentName(NodeAt(soup, v[k])))) =>
            /\ Cardinality(TextBlockMarkersAt(d, v[k])) = 1
            /\ \A m \in TextBlockMarkersAt(d, v[k]) : \A j \in 1..Len(d) :
                 (j # m /\ IsWalkBlock(d[j]) /\ IsPrefix(v[k], d[j].at)) => m < j

HeroCategoryOf(path) == First(FindAllClass(soup, path, C_hero_article_category))
HeroLinkOf(cat) ==
    IF cat = <<>> THEN <<>> ELSE First(FindAllTags(soup, cat[1], {"a"}))
HeroHref(link) == IF link = <<>> THEN <<>> ELSE NodeAt(soup, link[1]).attrs.href

\* the first img under the first 'hero--image' descendant
HeroImgOf(path) ==
    IF FindAllClass(soup, path, C_hero_image) = <<>> THEN <<>>
    ELSE First(FindAllTags(soup, FindAllClass(soup, path, C_hero_image)[1], {"img"}))

\* the category paragraph of a Hero Article: the label and, for a link with a
\* non-empty href, the absolute URL
IsCategoryParagraph(b, cat, href) ==
    /\ b.kind = "Paragraph"
    /\ Len(b.runs) = (IF href # <<>> THEN 2 ELSE 1)
    /\ b.runs[1] = Run(S_ArticleCategory \o GetTextStrip(NodeAt(soup, cat[1])), {"bold"})
    /\ href # <<>> => b.runs[2] = Run(S_Dash \o MakeAbsolute(base_url, href), {"italic"})

\* the table of a Hero Article: one row, two cells
IsHeroTable(b, img) ==
    /\ b.kind = "Table"
    /\ Len(b.rows) = 1
    /\ Len(b.rows[1]) = 2
    /\ img = <<>> =>
         /\ b.rows[1][1] = <<Run(S_IMAGE, {"bold"}), Plain(S_NoImageFound)>>
         /\ b.rows[1][2] = <<Run(S_AltText, {"bold"}), Plain(S_NoAltText)>>

AnchorsOf(path) == FindAllTags(soup, path, {"a"})
AnchorHref(q) == NodeAt(soup, q).attrs.href
IsCandidate(q) ==
    /\ ~InSeq(C_field_article_category, NodeAt(soup, SubSeq(q, 1, Len(q) - 1)).class)
    /\ AnchorHref(q) # <<>>
KeptIndices(path) ==
    {i \in 1..Len(AnchorsOf(path)) :
        /\ IsCandidate(AnchorsOf(path)[i])
        /\ \A j \in 1..(i - 1) :
             IsCandidate(AnchorsOf(path)[j])
                => AnchorHref(AnchorsOf(path)[j]) # AnchorHref(AnchorsOf(path)[i])}
KeptAnchors(path) ==
    SelectSeq(AnchorsOf(path),
              LAMBDA q : \E i \in KeptIndices(path) : AnchorsOf(path)[i] = q)

\* the title of the section: the first h2, h3 or h4 below it
SectionTitle(path) ==
    IF FindAllTags(soup, path, {"h2", "h3", "h4"}) = <<>> THEN S_ArticlesList
    ELSE GetTextStrip(NodeAt(soup, FindAllTags(soup, path, {"h2", "h3", "h4"})[1]))

FirstRunText(cell) == IF cell = <<>> THEN <<>> ELSE cell[1].text

\* the table of an Articles List over its kept anchors
IsArticlesTable(b, path, kept) ==
    /\ b.kind = "Table"
    /\ Len(b.rows) = Len(kept) + 2
    /\ \A i \in 1..Len(b.rows) : Len(b.rows[i]) = 2
    /\ b.rows[1] = << <<Run(S_TitleHeader, {"bold"})>>, <<Run(S_URLHeader, {"bold"})>> >>
    /\ b.rows[2][1] = <<Run(S_ComponentColon \o SectionTitle(path), {"bold"})>>
    /\ FirstRunText(b.rows[2][2]) = <<>>
    /\ \A k \in 1..Len(kept) :
         FirstRunText(b.rows[k + 2][2]) = MakeAbsolute(base_url, AnchorHref(kept[k]))

\* the step is the visit of an Articles List that is not pruned
VisitsArticlesList ==
    /\ VisitsTop
    /\ ComponentName(NodeAt(soup, Head(stack))) = <<S_ArticlesList>>
    /\ ~MatchesExclusionRule(NodeAt(soup, Head(stack)))

C22_WitnessKept ==
    /\ pc = "saved"
    /\ \E k \in 1..Len(rendered) : \E i \in 1..Len(doc) :
         /\ Len(AnchorsOf(rendered[k])) = 3
         /\ Len(KeptAnchors(rendered[k])) = 2
         /\ doc[i].by = "articles_table" /\ Len(doc[i].rows) = 4

\* the ancestors of an anchor strictly below the component root that carry the
\* title-field class, by their depth
TitleAncestors(path, q) ==
    {d \in (Len(path) + 1)..(Len(q) - 1) :
        InSeq(C_field_name_title, NodeAt(soup, SubSeq(q, 1, d)).class)}

Highest(S) == CHOOSE d \in S : \A e \in S : e <= d

\* the display title of an anchor: the text of the nearest such ancestor, the
\* text of the anchor without one
DisplayTitle(path, q) ==
    IF TitleAncestors(path, q) = {} THEN GetTextStrip(NodeAt(soup, q))
    ELSE GetTextStrip(NodeAt(soup, SubSeq(q, 1, Highest(TitleAncestors(path, q)))))

\* C23: in the table of an Articles List the title of the row of every kept
\* anchor is the text of the nearest ancestor of the anchor, strictly below
\* the component root, that carries the class 'field--name-title', and the
\* text of the anchor itself when there is no such ancestor; a title field
\* that is no ancestor of the anchor is never used.
C23_TitleFromAncestor ==
    [][(VisitsArticlesList /\ KeptAnchors(Head(stack)) # <<>>) =>
          /\ NewBlocks # <<>>
          /\ Len(NewBlocks[1].rows) = Len(KeptAnchors(Head(stack))) + 2
          /\ \A k \in 1..Len(KeptAnchors(Head(stack))) :
               FirstRunText(NewBlocks[1].rows[k + 2][1])
                 = DisplayTitle(Head(stack), KeptAnchors(Head(stack))[k])]_vars

\* the same for the Articles Lists without any title field: holds
C23_TitleIsAnchorText ==
    [][(VisitsArticlesList /\ KeptAnchors(Head(stack)) # <<>>
          /\ FindAllClass(soup, Head(stack), C_field_name_title) = <<>>) =>
          \A k \in 1..Len(KeptAnchors(Head(stack))) :
               FirstRunText(NewBlocks[1].rows[k + 2][1])
                 = GetTextStrip(NodeAt(soup, KeptAnchors(Head(stack))[k]))]_vars

\* the step is the visit of a Text Image that is not pruned
VisitsTextImage ==
    /\ VisitsTop
    /\ ComponentName(NodeAt(soup, Head(stack))) = <<S_TextImage>>
    /\ ~MatchesExclusionRule(NodeAt(soup, Head(stack)))

\* the blocks the visit of a Text Image appends between the spacer below the
\* table and the closing spacer
BodyBlocks == SubSeq(NewBlocks, 4, Len(NewBlocks) - 1)

\* what tier 1 and tier 2 give for the Text Image at a path
TierOne(path) ==
    ContentTagBlocks(soup, path, FindAllTags(soup, path, {"p", "li"} \cup HeadingTags), 1, {})
TierTwo(path) ==
    ContainerBlocks(soup, path, FindAllTextContainers(soup, path), 1, {})

\* C24: in a Text Image tier 2 runs exactly when tier 1 gives no block, also
\* when p, h2-h6 or li descendants exist and all of them are filtered out, and
\* never when tier 1 gave a block: the body is tier 1 if that is not empty and
\* tier 2 otherwise.
C24_TierTwoIffTierOneEmpty ==
    [][VisitsTextImage =>
          BodyBlocks = IF TierOne(Head(stack)) # <<>> THEN TierOne(Head(stack))
                       ELSE TierTwo(Head(stack))]_vars

\* the same with tier 2 running only for a Text Image without any p, h2-h6 or
\* li descendant: holds
C24_TierTwoIffNoContentTag ==
    [][VisitsTextImage =>
          BodyBlocks = IF FindAllTags(soup, Head(stack), {"p", "li"} \cup HeadingTags) # <<>>
                       THEN TierOne(Head(stack))
                       ELSE TierTwo(Head(stack))]_vars

\* the p, h2-h6 and li descendants of a Text Image, and which of them are kept
ContentTagsOf(path) ==
    FindAllTags(soup, path, {"p", "h2", "h3", "h4", "h5", "h6", "li"})
TrimmedText(q) == GetTextStrip(NodeAt(soup, q))
IsContent(q) ==
    /\ \A d \in 0..(Len(q) - 1) :
         ~InSeq(C_hero_article_category, NodeAt(soup, SubSeq(q, 1, d)).class)
    /\ Len(TrimmedText(q)) > 2
KeptContent(path) ==
    {i \in 1..Len(ContentTagsOf(path)) :
        /\ IsContent(ContentTagsOf(path)[i])
        /\ \A j \in 1..(i - 1) :
             IsContent(ContentTagsOf(path)[j])
                => TrimmedText(ContentTagsOf(path)[j]) # TrimmedText(ContentTagsOf(path)[i])}
KeptContentTags(path) ==
    SelectSeq(ContentTagsOf(path),
              LAMBDA q : \E i \in KeptContent(path) : ContentTagsOf(path)[i] = q)

\* the level a heading tag names
OwnLevel(tag) ==
    CASE tag = "h2" -> 2 [] tag = "h3" -> 3 [] tag = "h4" -> 4 [] tag = "h5" -> 5
      [] tag = "h6" -> 6

\* the block of a kept descendant: a heading of its own level for h2-h6, a
\* plain paragraph for p and li
IsBlockOf(b, q) ==
    /\ b.runs = <<Plain(TrimmedText(q))>>
    /\ IF NodeAt(soup, q).tag \in {"p", "li"}
       THEN b.kind = "Paragraph" /\ b.style = "Normal"
       ELSE b.kind = "Heading" /\ b.level = OwnLevel(NodeAt(soup, q).tag)

\* C25: the body of a Text Image with p, h2-h6 or li descendants is, in
\* document order, one block for every such descendant that has no category
\* ancestor, a trimmed text longer than 2 characters and a text no earlier
\* kept descendant has: a heading of its own level for h2-h6, a plain
\* paragraph otherwise; no two body blocks of a Text Image carry the same text.
C25_TierOneBlocks ==
    [][VisitsTextImage =>
          /\ ContentTagsOf(Head(stack)) # <<>> =>
               /\ Len(BodyBlocks) = Len(KeptContentTags(Head(stack)))
               /\ \A k \in 1..Len(BodyBlocks) :
                    IsBlockOf(BodyBlocks[k], KeptContentTags(Head(stack))[k])
          /\ \A i \in 1..Len(BodyBlocks) : \A j \in 1..Len(BodyBlocks) :
               i # j => BodyBlocks[i].runs # BodyBlocks[j].runs]_vars

\* C25 witness: a Text Image with a heading, a paragraph and a list item of
\* the same text as the paragraph has been rendered: its body is the heading
\* and one paragraph
C25_Witness ==
    /\ pc = "saved"
    /\ \E k \in 1..Len(rendered) :
         /\ Len(ContentTagsOf(rendered[k])) = 3
         /\ Len(KeptContentTags(rendered[k])) = 2
         /\ \E i \in 1..(Len(ContentTagsOf(rendered[k])) - 1) :
              /\ NodeAt(soup, ContentTagsOf(rendered[k])[i]).tag = "p"
              /\ NodeAt(soup, ContentTagsOf(rendered[k])[i + 1]).tag = "li"
              /\ i \in KeptContent(rendered[k])
              /\ (i + 1) \notin KeptContent(rendered[k])
         /\ Len(SelectSeq(doc, LAMBDA b : b.by = "text_image_body" /\ b.at = rendered[k])) = 2
         /\ \E i \in 1..Len(doc) : doc[i].by = "text_image_body" /\ doc[i].kind = "Heading"

\* the step is the visit of a component that the default renderer handles
VisitsGeneric ==
    /\ VisitsTop
    /\ IsComponentName(ComponentName(NodeAt(soup, Head(stack))))
    /\ ComponentName(NodeAt(soup, Head(stack)))[1]
         \notin {S_HeroArticle, S_ArticlesList, S_TextImage}
    /\ ~MatchesExclusionRule(NodeAt(soup, Head(stack)))

\* step (i): the texts longer than 10 characters of the class-matched
\* descendants that are no category elements
StepOne(path) ==
    SelectSeq(TextsOf(soup,
                  SelectSeq(FindAllTextContainers(soup, path),
                            LAMBDA q : ~InSeq(C_hero_article_category, NodeAt(soup, q).class))),
              LAMBDA t : Len(t) > 10)

\* step (ii): the non-empty texts of the p and h1-h6 descendants
StepTwo(path) ==
    SelectSeq(TextsOf(soup, FindAllTags(soup, path,
                                        {"p", "h1", "h2", "h3", "h4", "h5", "h6"})),
              LAMBDA t : t # <<>>)

\* the first occurrences of the texts, joined with a blank line
FirstOccurrences(parts) ==
    [k \in 1..Cardinality({i \in 1..Len(parts) : \A j \in 1..(i - 1) : parts[j] # parts[i]}) |->
        parts[CHOOSE i \in 1..Len(parts) :
                 /\ \A j \in 1..(i - 1) : parts[j] # parts[i]
                 /\ Cardinality({h \in 1..i : \A j \in 1..(h - 1) : parts[j] # parts[h]}) = k]]
JoinedWithBlankLine(parts) == Join(FirstOccurrences(parts), <<"\n", "\n">>)

\* step (iii): the flattened text of the element, at most 500 characters
StepThree(path) ==
    SubSeq(GetTextSepStrip(NodeAt(soup, path), <<" ">>), 1,
           IF Len(GetTextSepStrip(NodeAt(soup, path), <<" ">>)) > 500 THEN 500
           ELSE Len(GetTextSepStrip(NodeAt(soup, path), <<" ">>)))

\* C26: the text cell of the table of a default component holds the texts of
\* step (i) if that kept any, else the texts of step (ii) if there are any,
\* each time without repetitions and joined with a blank line, else the
\* flattened text of the element cut to 500 characters.
C26_SummaryFallbackChain ==
    [][VisitsGeneric =>
          /\ Len(NewBlocks) = 3
          /\ NewBlocks[2].kind = "Table"
          /\ NewBlocks[2].rows[1][2]
               = <<Plain(IF StepOne(Head(stack)) # <<>>
                         THEN JoinedWithBlankLine(StepOne(Head(stack)))
                         ELSE IF StepTwo(Head(stack)) # <<>>
                         THEN JoinedWithBlankLine(StepTwo(Head(stack)))
                         ELSE StepThree(Head(stack)))>>
          /\ Len(NewBlocks[2].rows[1][2][1].text) > 500
               => StepOne(Head(stack)) # <<>> \/ StepTwo(Head(stack)) # <<>>]_vars

\* C26 witness: a Card has been rendered whose only class-matched descendant
\* is too short and which holds the same paragraph twice: the summary is the
\* text of the paragraph, once
C26_Witness ==
    /\ pc = "saved"
    /\ \E k \in 1..Len(rendered) : \E i \in 1..Len(doc) :
         /\ FindAllTextContainers(soup, rendered[k]) # <<>>
         /\ StepOne(rendered[k]) = <<>>
         /\ StepTwo(rendered[k]) = <<T_Body, T_Body>>
         /\ doc[i].by = "component_table" /\ doc[i].at = rendered[k]
         /\ doc[i].rows[1][2] = <<Plain(T_Body)>>

\* a second witness state: a Card with nothing but a fragment longer than
\* the limit, its summary cut to 500 characters
C26_WitnessCut ==
    /\ pc = "saved"
    /\ \E k \in 1..Len(rendered) : \E i \in 1..Len(doc) :
         /\ StepOne(rendered[k]) = <<>> /\ StepTwo(rendered[k]) = <<>>
         /\ Len(GetText(NodeAt(soup, rendered[k]))) > 500
         /\ doc[i].by = "component_table" /\ doc[i].at = rendered[k]
         /\ Len(doc[i].rows[1][2][1].text) = 500

RECURSIVE ConcatAll(_)
ConcatAll(seqs) == IF seqs = <<>> THEN <<>> ELSE Head(seqs) \o ConcatAll(Tail(seqs))

\* the two runs of an anchor: its visible text and its absolute URL in
\* parentheses, both coloured and underlined
AnchorTextRun(a) == Run(GetText(a), {"blue", "underline"})
AnchorUrlRun(a) ==
    Run(<<" ", "(">> \o MakeAbsolute(base_url, a.attrs.href) \o <<")">>, {"blue", "underline"})

\* the runs of the children of an element, an anchor giving the URL run
\* always or only for an href that is not empty
InlineRuns(element, always) ==
    ConcatAll([i \in 1..Len(element.kids) |->
        IF element.kids[i].tag = "a"
        THEN IF always \/ element.kids[i].attrs.href # <<>>
             THEN <<AnchorTextRun(element.kids[i]), AnchorUrlRun(element.kids[i])>>
             ELSE <<AnchorTextRun(element.kids[i])>>
        ELSE ChildRuns(base_url, element.kids[i])])

\* the direct li children of the element at a path
ItemsOf(path) ==
    SelectSeq(ChildPaths(NodeAt(soup, path), path), LAMBDA q : NodeAt(soup, q).tag = "li")

\* the runs of the blocks the visit of a paragraph, a heading or a list appends
InlineRunsAppended(path, always) ==
    IF NodeAt(soup, path).tag \in {"ul", "ol"}
    THEN /\ Len(NewBlocks) = Len(ItemsOf(path))
         /\ \A i \in 1..Len(NewBlocks) :
              NewBlocks[i].runs = InlineRuns(NodeAt(soup, ItemsOf(path)[i]), always)
    ELSE /\ Len(NewBlocks) = 1
         /\ NewBlocks[1].runs = InlineRuns(NodeAt(soup, path), always)

VisitsInline ==
    /\ VisitsTop
    /\ NodeAt(soup, Head(stack)).tag \in {"p", "h2", "h3", "h4", "h5", "h6", "ul", "ol"}
    /\ ~MatchesExclusionRule(NodeAt(soup, Head(stack)))
    /\ ~IsTextBlock(NodeAt(soup, Head(stack)))

\* C27: every anchor that is a direct child of a processed paragraph, heading
\* or list item gives exactly two consecutive runs, its visible text and its
\* absolute URL in parentheses, both coloured and underlined, whatever its
\* href, a missing or empty one included.
C27_AnchorAlwaysTwoRuns ==
    [][VisitsInline => InlineRunsAppended(Head(stack), TRUE)]_vars

\* C27 amended: the anchor gives its visible text, coloured and underlined,
\* and after it the run of the URL iff its href is not empty.
C27_AnchorUrlRunIffHref ==
    [][VisitsInline => InlineRunsAppended(Head(stack), FALSE)]_vars

\* C27 witness: a paragraph of an anchor with an href and an anchor without
\* one has been processed and has three runs, the last the text of the anchor
\* without href
C27_Witness ==
    /\ pc = "saved"
    /\ \E k \in 1..Len(visited) : \E i \in 1..Len(doc) :
         /\ NodeAt(soup, visited[k]).tag = "p"
         /\ Len(NodeAt(soup, visited[k]).kids) = 2
         /\ NodeAt(soup, visited[k]).kids[1].tag = "a"
         /\ NodeAt(soup, visited[k]).kids[1].attrs.href # <<>>
         /\ NodeAt(soup, visited[k]).kids[2].tag = "a"
         /\ NodeAt(soup, visited[k]).kids[2].attrs.href = <<>>
         /\ doc[i].by = "walk_paragraph" /\ doc[i].at = visited[k]
         /\ Len(doc[i].runs) = 3
         /\ doc[i].runs[3] = AnchorTextRun(NodeAt(soup, visited[k]).kids[2])

\* the cell of block b in row r and column j is rendered bold
IsBoldCell(b, r, j) ==
    /\ b.rows[r][j] # <<>>
    /\ \A k \in 1..Len(b.rows[r][j]) : "bold" \in b.rows[r][j][k].fmt

\* C28: in the table the walker appends for a table element, a cell that
\* comes from a th is bold and a cell that comes from a td is not.
C28_HeaderCellsBold ==
    InCall =>
        \A k \in 1..Len(visited) : \A i \in TablesAt(visited[k]) :
            \A r \in 1..Len(Below(visited[k], {"tr"})) :
                \A j \in 1..Len(Below(Below(visited[k], {"tr"})[r], {"td", "th"})) :
                    IsBoldCell(doc[i], r, j)
                      <=> NodeAt(soup, Below(Below(visited[k], {"tr"})[r], {"td", "th"})[j]).tag
                            = "th"

\* the half about the data cells: holds
C28_DataCellsNotBold ==
    InCall =>
        \A k \in 1..Len(visited) : \A i \in TablesAt(visited[k]) :
            \A r \in 1..Len(Below(visited[k], {"tr"})) :
                \A j \in 1..Len(Below(Below(visited[k], {"tr"})[r], {"td", "th"})) :
                    NodeAt(soup, Below(Below(visited[k], {"tr"})[r], {"td", "th"})[j]).tag = "td"
                      => ~IsBoldCell(doc[i], r, j)

\* the call is running on a tree without main and without body
OnAbsentTree == pc \in {"ready", "walk", "saved"} /\ MainContent(soup) = <<>>

\* the blocks of document d that stand in place of the walk
NoMainAt(d) == {i \in 1..Len(d) : d[i].by = "no_main"}

\* C29 as stated: on a tree with neither a main nor a body root the call
\* signals a failure and does not start: no block is appended, no document
\* is written and finished is not emitted.
C29_AbsentTreeStartsNothing ==
    [][OnAbsentTree
       => /\ UNCHANGED <<doc, saved>>
          /\ \A k \in 1..Len(NewSignals) : NewSignals[k].name # "finished"
          /\ pc = "ready" => \E k \in 1..Len(NewSignals) : NewSignals[k].name = "error"]_vars

\* C29 amended: on a tree with neither a main nor a body root the call
\* starts and reports no failure on account of the tree: the document gets
\* its header and the paragraph "No main content found." in place of the
\* walk, no element is visited and no counter moves, the metadata step
\* appends after that paragraph, and unless a statement of the call raises
\* the document is written and finished is emitted.
C29_AbsentTreeStillExtracted ==
    [][OnAbsentTree
       => /\ pc = "ready"
             => /\ pc' = "walk"
                /\ NewSignals = <<>>
                /\ stack' = <<>>
                /\ doc' # <<>>
                /\ NoMainAt(doc') = {Len(doc')}
                /\ doc'[Len(doc')].kind = "Paragraph"
                /\ doc'[Len(doc')].runs = TextRuns(S_NoMainContent)
                /\ \A i \in 1..Len(doc') : doc'[i].by \in {"header", "h1", "no_main"}
                /\ saved' = saved
          /\ pc = "walk"
             => /\ visited = <<>> /\ rendered = <<>>
                /\ text_block_count = 0 /\ text_image_count = 0
                /\ \/ /\ pc' = "saved"
                      /\ saved' = Append(saved, doc')
                      /\ Len(doc') > Len(doc)
                      /\ SubSeq(doc', 1, Len(doc)) = doc
                      /\ \A i \in Len(doc) + 1..Len(doc') :
                            doc'[i].by \in {"seo_spacer", "seo_header", "seo_table"}
                      /\ \A k \in 1..Len(NewSignals) :
                            NewSignals[k].name \notin {"error", "finished"}
                   \/ /\ pc' = "done"
                      /\ UNCHANGED <<doc, saved>>
                      /\ \E k \in 1..Len(NewSignals) :
                            NewSignals[k] = Emit("error", "save_exception")
          /\ pc = "saved"
             => /\ pc' = "done"
                /\ UNCHANGED <<doc, saved>>
                /\ Len(SelectSeq(NewSignals, LAMBDA e : e.name = "finished")) = 1
                /\ \A k \in 1..Len(NewSignals) : NewSignals[k].name # "error"]_vars

\* the run on the empty document has ended: one document written, with the
\* paragraph in place of the walk and the complete metadata section, and
\* finished as the only terminal signal
C29_Witness ==
    /\ pc = "done"
    /\ soup = EmptyPage
    /\ RunsStarted = 1
    /\ Len(saved) = 1
    /\ doc = saved[1]
    /\ Cardinality(NoMainAt(doc)) = 1
    /\ SeoComplete(doc)
    /\ visited = <<>>
    /\ SelectSeq(signals, LAMBDA e : e.name \in {"finished", "error"})
          = <<Emit("finished", "extract")>>

\* C30: whenever the Start button is disabled, it is enabled again later.
C30_StartReenabled == (~start_button) ~> start_button

\* a thread that has emitted finished gets the Start button enabled again
C30_FinishedReenables == (queued > 0) ~> start_button

\* once a thread has ended without finished in flight and with the Start
\* button disabled, the button stays disabled
C30_EndedWithoutFinishedStaysDisabled ==
    [][(thread = "returned" /\ queued = 0 /\ ~start_button) => ~start_button']_vars

====
